---------------------------- MODULE Spec2Model ----------------------------
(***************************************************************************)
(* Field Mapper: reconciliation of a catalog of expected field names with  *)
(* the field paths found in JSON documents.                                *)
(*                                                                         *)
(* Strings are sequences of one-character strings, so that normalisation,  *)
(* path splitting, sorting and similarity are computed character by        *)
(* character as the Python code computes them.  JSON values are tagged     *)
(* records; a JSON object keeps its keys in insertion order, as a Python   *)
(* dict does.                                                              *)
(***************************************************************************)
EXTENDS Integers, Sequences, FiniteSets, TLC

VARIABLES
    \* ---- one call of the comparison pipeline on one document (SpecCompare)
    cmp_in,                 \* the catalog, the document and the configuration
    cmp_out,                \* the outcome of FieldComparator.compare on them
    \* ---- FieldMapperApp / FieldComparator state of a batch run (SpecBatch)
    json_files_list,        \* self.json_files_list: [head, pad]
    pc,                     \* position of the worker: off / loop / completed / failed / idle
    path,                   \* "aggregate" (> 1000 files) or "collect"
    i,                      \* files of the list already handled
    processed,              \* local counter processed
    file_stats,             \* {'success', 'failed'} of the incremental path
    field_stats,            \* field name -> counters
    fields_exist_in_json,   \* set of field names
    array_fields_missing_files, \* field name -> list of file names
    all_results,            \* results handed to _display_results_complete
    json_fields,            \* self.json_fields: the cached positions
    validation_results,     \* self.comparator.validation_results['json']
    fields_with_special_chars, \* self.fields_with_special_chars['json']
    record_unmatched_info,  \* self.record_unmatched_info
    runs,                   \* batches started so far
    \* ---- interactive thread and background workers (SpecUI)
    is_processing,          \* self.is_processing
    buttons_enabled,        \* state of compare_button / clear_button
    ui_files,               \* len(self.json_files_list) as the UI thread sees it
    workers,                \* the threads started so far: [kind, total, pos, alive]
    after_queue,            \* callbacks scheduled with root.after(0, ...)
    signals,                \* per worker: final signals sent and handled
    last_handled            \* the handler the main loop ran last

cmpVars == <<cmp_in, cmp_out>>
batchVars == <<json_files_list, pc, path, i, processed, file_stats, field_stats,
               fields_exist_in_json, array_fields_missing_files, all_results,
               json_fields, validation_results, fields_with_special_chars,
               record_unmatched_info, runs>>
uiVars == <<is_processing, buttons_enabled, ui_files, workers, after_queue,
            signals, last_handled>>
vars == <<cmpVars, batchVars, uiVars>>

-----------------------------------------------------------------------------
(* Characters and strings *)

UpperChars == <<"A","B","C","D","E","F","G","H","I","J","K","L","M",
                "N","O","P","Q","R","S","T","U","V","W","X","Y","Z">>
LowerChars == <<"a","b","c","d","e","f","g","h","i","j","k","l","m",
                "n","o","p","q","r","s","t","u","v","w","x","y","z">>
DigitChars == <<"0","1","2","3","4","5","6","7","8","9">>

\* The characters of the model in code-point order (Python compares strings so).
CodePointOrder ==
    <<" ", "%", "-", ".">> \o DigitChars \o <<":">> \o UpperChars \o <<"_">> \o LowerChars

Ord(c) == CHOOSE k \in 1..Len(CodePointOrder) : CodePointOrder[k] = c

\* str.lower() on one character
lower_char(c) ==
    IF \E k \in 1..Len(UpperChars) : UpperChars[k] = c
    THEN LowerChars[CHOOSE k \in 1..Len(UpperChars) : UpperChars[k] = c]
    ELSE c

lower(s) == [k \in 1..Len(s) |-> lower_char(s[k])]

\* s.replace(c, '') for every c in chars
RECURSIVE remove_chars(_, _)
remove_chars(s, chars) ==
    IF s = <<>> THEN <<>>
    ELSE IF Head(s) \in chars THEN remove_chars(Tail(s), chars)
         ELSE <<Head(s)>> \o remove_chars(Tail(s), chars)

\* 'x in s' for a character
has_char(s, c) == \E k \in 1..Len(s) : s[k] = c

\* 'a in b' for strings (substring test; the empty string is in every string)
is_substring(a, b) ==
    \E k \in 0..(Len(b) - Len(a)) : SubSeq(b, k + 1, k + Len(a)) = a

\* index of the last occurrence of c in s, 0 if none
last_index(s, c) ==
    IF has_char(s, c)
    THEN CHOOSE k \in 1..Len(s) : s[k] = c /\ \A m \in (k+1)..Len(s) : s[m] # c
    ELSE 0

\* s.split('.')
RECURSIVE split_dots(_)
split_dots(s) ==
    IF ~has_char(s, ".") THEN <<s>>
    ELSE LET k == CHOOSE m \in 1..Len(s) : s[m] = "." /\ \A n \in 1..(m-1) : s[n] # "."
         IN <<SubSeq(s, 1, k - 1)>> \o split_dots(SubSeq(s, k + 1, Len(s)))

\* a < b in Python's string order
RECURSIVE str_less(_, _)
str_less(a, b) ==
    IF b = <<>> THEN FALSE
    ELSE IF a = <<>> THEN TRUE
    ELSE IF Head(a) = Head(b) THEN str_less(Tail(a), Tail(b))
    ELSE Ord(Head(a)) < Ord(Head(b))

\* sorted(list(set(...))) of a set of strings
RECURSIVE sorted(_)
sorted(S) ==
    IF S = {} THEN <<>>
    ELSE LET m == CHOOSE x \in S : \A y \in S \ {x} : str_less(x, y)
         IN <<m>> \o sorted(S \ {m})

\* the elements of a sequence
Range(s) == {s[k] : k \in 1..Len(s)}

\* dict.get(key) on a list of <<key, value>> pairs built by successive
\* assignments d[key] = value: the last assignment wins.
dict_has(d, key) == \E k \in 1..Len(d) : d[k][1] = key
dict_get(d, key, default) ==
    IF dict_has(d, key)
    THEN d[CHOOSE k \in 1..Len(d) : d[k][1] = key /\ \A m \in (k+1)..Len(d) : d[m][1] # key][2]
    ELSE default

-----------------------------------------------------------------------------
(* Normalisation of field, category and array names *)

\* a faulty normalisation, kept to test the properties of the keys: only the
\* first dot-segment is dropped and the dots that remain are kept
first_index_of(s, c) == CHOOSE k \in 1..Len(s) : s[k] = c /\ \A e \in 1..(k - 1) : s[e] # c
normalize_field_parent_dropped(f, case_sensitive) ==
    LET field_name == IF has_char(f, ".")
                      THEN SubSeq(f, first_index_of(f, ".") + 1, Len(f))
                      ELSE f
        stripped == remove_chars(field_name, {" ", "_", "-"})
    IN IF case_sensitive THEN stripped ELSE lower(stripped)

\* FieldComparator._normalize_fields, for one field name
normalize_field(f, case_sensitive) ==
    LET field_name == IF has_char(f, ".")
                      THEN SubSeq(f, last_index(f, ".") + 1, Len(f))
                      ELSE f
        stripped == remove_chars(field_name, {" ", "_", "-", "."})
    IN IF case_sensitive THEN stripped ELSE lower(stripped)

\* FieldComparator._normalize_fields on a list
normalize_fields(fields, case_sensitive) ==
    [k \in 1..Len(fields) |-> normalize_field(fields[k], case_sensitive)]

\* the normalisation compare applies to category and array names
normalize_category(c, case_sensitive) ==
    LET stripped == remove_chars(c, {" ", "_", "-"})
    IN IF case_sensitive THEN stripped ELSE lower(stripped)

\* JSONParser._normalize_field_name
normalize_field_name(field_name) ==
    lower(remove_chars(field_name, {" ", "_", "-", "."}))

-----------------------------------------------------------------------------
(* JSON values.  A string value whose text is a bracketed array nested      *)
(* deeper than the interpreter's recursion limit is the value DeepStr:      *)
(* json.loads raises RecursionError on it.  No other string of the model    *)
(* starts with a bracket or a brace.                                        *)

JNull == [t |-> "null"]
JNum == [t |-> "num"]
JStr(s) == [t |-> "str", s |-> s]
DeepStr == [t |-> "deepstr"]
JArr(items) == [t |-> "arr", items |-> items]
JObj(keys, vals) == [t |-> "obj", keys |-> keys, vals |-> vals]

is_dict(v) == v.t = "obj"
is_list(v) == v.t = "arr"
is_str(v) == v.t \in {"str", "deepstr"}

\* dict.get(key): None (JNull) when the key is absent
obj_get(o, key) ==
    IF \E k \in 1..Len(o.keys) : o.keys[k] = key
    THEN o.vals[CHOOSE k \in 1..Len(o.keys) : o.keys[k] = key]
    ELSE JNull

join_path(prefix, key) == IF prefix # <<>> THEN prefix \o <<".">> \o key ELSE key

\* JSONParser._extract_all_fields: the set of field paths of a value
RECURSIVE extract_all_fields(_, _)
extract_all_fields(data, prefix) ==
    IF is_dict(data) THEN
        UNION { LET key == data.keys[k]
                    value == data.vals[k]
                    field_name == join_path(prefix, key)
                IN {field_name} \cup
                   (IF is_list(value)
                    THEN IF \E m \in 1..Len(value.items) : is_dict(value.items[m])
                         THEN UNION { IF is_dict(value.items[m]) \/ is_list(value.items[m])
                                      THEN extract_all_fields(value.items[m], field_name)
                                      ELSE {} : m \in 1..Len(value.items) }
                         ELSE {}
                    ELSE IF is_dict(value)
                         THEN extract_all_fields(value, field_name)
                         ELSE {})
              : k \in 1..Len(data.keys) }
    ELSE IF is_list(data) THEN
        UNION { IF is_dict(data.items[m]) \/ is_list(data.items[m])
                THEN extract_all_fields(data.items[m], prefix)
                ELSE {} : m \in 1..Len(data.items) }
    ELSE {}

\* JSONParser._extract_array_fields_recursive: the dict it returns, as the
\* list of its assignments in execution order
RECURSIVE extract_array_fields_recursive(_)
RECURSIVE array_fields_of_items(_, _)
RECURSIVE array_fields_of_keys(_, _)
array_fields_of_items(items, key) ==
    IF items = <<>> THEN <<>>
    ELSE (IF is_dict(Head(items))
          THEN [k \in 1..Len(Head(items).keys) |->
                    <<normalize_field_name(Head(items).keys[k]), key>>]
               \o extract_array_fields_recursive(Head(items))
          ELSE <<>>)
         \o array_fields_of_items(Tail(items), key)
array_fields_of_keys(data, k) ==
    IF k > Len(data.keys) THEN <<>>
    ELSE LET value == data.vals[k]
         IN (IF is_list(value) THEN array_fields_of_items(value.items, data.keys[k])
             ELSE IF is_dict(value) THEN extract_array_fields_recursive(value)
             ELSE <<>>)
            \o array_fields_of_keys(data, k + 1)
extract_array_fields_recursive(data) ==
    IF is_dict(data) THEN array_fields_of_keys(data, 1) ELSE <<>>

\* value is None or an empty list
is_null_or_empty(value) ==
    value.t = "null" \/ (is_list(value) /\ Len(value.items) = 0)

\* the null_categories dict of a record (field_mapper.py, per-record loop)
record_null_categories(record) ==
    IF is_dict(record)
    THEN [k \in 1..Len(record.keys) |-> <<record.keys[k], is_null_or_empty(record.vals[k])>>]
    ELSE <<>>

\* the null_categories dict _process_comparison_batch builds for a file
file_null_categories(json_data) ==
    IF is_dict(json_data) THEN record_null_categories(json_data)
    ELSE IF is_list(json_data) /\ Len(json_data.items) > 0 /\ is_dict(json_data.items[1])
         THEN record_null_categories(json_data.items[1])
         ELSE <<>>

\* JSONParser.get_records on already loaded data
get_records(data) ==
    IF is_list(data) THEN SelectSeq(data.items, is_dict)
    ELSE IF is_dict(data) THEN <<data>>
    ELSE <<>>

-----------------------------------------------------------------------------
(* Similarity: difflib.SequenceMatcher(None, a, b).ratio().  No character   *)
(* is junk (isjunk is None, and the popularity heuristic needs 200 or more  *)
(* characters), so the ratio is 2*M/T with M the characters in matching     *)
(* blocks.  A ratio is kept as the pair <<2*M, T>>.                         *)

\* a[ai..] and b[bj..] agree on k characters
block_matches(a, b, ai, bj, k) ==
    /\ ai + k - 1 <= Len(a)
    /\ bj + k - 1 <= Len(b)
    /\ \A d \in 0..(k - 1) : a[ai + d] = b[bj + d]

\* SequenceMatcher.find_longest_match: <<i, j, k>>, the longest block, the
\* earliest in a among the longest, the earliest in b among those
find_longest_match(a, b) ==
    LET blocks == { <<ai, bj, k>> \in (1..Len(a)) \X (1..Len(b)) \X (1..Len(a)) :
                        block_matches(a, b, ai, bj, k) }
    IN IF blocks = {} THEN <<1, 1, 0>>
       ELSE CHOOSE x \in blocks :
                \A y \in blocks :
                    \/ x[3] > y[3]
                    \/ (x[3] = y[3] /\ x[1] < y[1])
                    \/ (x[3] = y[3] /\ x[1] = y[1] /\ x[2] <= y[2])

\* SequenceMatcher.get_matching_blocks: the total size of the blocks
RECURSIVE matching_size(_, _)
matching_size(a, b) ==
    IF a = <<>> \/ b = <<>> THEN 0
    ELSE LET m == find_longest_match(a, b)
         IN IF m[3] = 0 THEN 0
            ELSE m[3]
                 + matching_size(SubSeq(a, 1, m[1] - 1), SubSeq(b, 1, m[2] - 1))
                 + matching_size(SubSeq(a, m[1] + m[3], Len(a)), SubSeq(b, m[2] + m[3], Len(b)))

\* FieldComparator._calculate_similarity
calculate_similarity(str1, str2) ==
    IF Len(str1) + Len(str2) = 0 THEN <<1, 1>>
    ELSE <<2 * matching_size(str1, str2), Len(str1) + Len(str2)>>

ratio_greater(x, y) == x[1] * y[2] > y[1] * x[2]
\* similarity >= threshold, the threshold given in hundredths
ratio_at_least(x, hundredths) == x[1] * 100 >= hundredths * x[2]

NoMatch == [found |-> FALSE]

\* a faulty search, kept to test the properties of the matching: among
\* candidates of equal similarity the last one wins
RECURSIVE best_fuzzy_scan_last(_, _, _)
best_fuzzy_scan_last(field, candidates, best) ==
    IF candidates = <<>> THEN best
    ELSE LET similarity == calculate_similarity(field, Head(candidates))
         IN best_fuzzy_scan_last(field, Tail(candidates),
                IF ~ratio_greater(best.similarity, similarity)
                THEN [found |-> TRUE, match |-> Head(candidates), similarity |-> similarity]
                ELSE best)
find_best_fuzzy_match_last(field, candidates) ==
    LET best == best_fuzzy_scan_last(field, candidates,
                                     [found |-> FALSE, match |-> <<>>, similarity |-> <<0, 1>>])
    IN IF best.found /\ best.match # <<>> THEN best ELSE NoMatch

\* FieldComparator._find_best_fuzzy_match: the first candidate of the highest
\* similarity above 0.0; None when there is none or when it is the empty string
RECURSIVE best_fuzzy_scan(_, _, _)
best_fuzzy_scan(field, candidates, best) ==
    IF candidates = <<>> THEN best
    ELSE LET similarity == calculate_similarity(field, Head(candidates))
         IN best_fuzzy_scan(field, Tail(candidates),
                IF ratio_greater(similarity, best.similarity)
                THEN [found |-> TRUE, match |-> Head(candidates), similarity |-> similarity]
                ELSE best)
find_best_fuzzy_match(field, candidates) ==
    LET best == best_fuzzy_scan(field, candidates,
                                [found |-> FALSE, match |-> <<>>, similarity |-> <<0, 1>>])
    IN IF best.found /\ best.match # <<>> THEN best ELSE NoMatch

\* first pass of _find_matches: exact matches
RECURSIVE exact_pass(_, _, _, _)
exact_pass(dfields, jfields, matches, used_json_fields) ==
    IF dfields = <<>> THEN [matches |-> matches, used |-> used_json_fields]
    ELSE LET db_field == Head(dfields)
         IN IF db_field \in Range(jfields) /\ db_field \notin used_json_fields
            THEN exact_pass(Tail(dfields), jfields,
                            Append(matches, [db |-> db_field, json |-> db_field,
                                             kind |-> "exact", score |-> <<1, 1>>]),
                            used_json_fields \cup {db_field})
            ELSE exact_pass(Tail(dfields), jfields, matches, used_json_fields)

\* a faulty second pass, kept to test the properties of the matching: a
\* catalog key the first pass has bound is offered to the fuzzy match again
RECURSIVE fuzzy_pass_rebinding(_, _, _, _, _)
fuzzy_pass_rebinding(dfields, jfields, matches, used_json_fields, threshold) ==
    IF dfields = <<>> THEN matches
    ELSE LET db_field == Head(dfields)
             candidates == SelectSeq(jfields, LAMBDA f : f \notin used_json_fields)
             best_match == find_best_fuzzy_match(db_field, candidates)
         IN IF best_match.found /\ ratio_at_least(best_match.similarity, threshold)
            THEN fuzzy_pass_rebinding(Tail(dfields), jfields,
                            Append(matches, [db |-> db_field, json |-> best_match.match,
                                             kind |-> "fuzzy", score |-> best_match.similarity]),
                            used_json_fields \cup {best_match.match}, threshold)
            ELSE fuzzy_pass_rebinding(Tail(dfields), jfields, matches, used_json_fields, threshold)

\* a faulty second pass, kept to test the properties of the matching: the
\* JSON fields already bound stay among the candidates
RECURSIVE fuzzy_pass_reusing(_, _, _, _, _)
fuzzy_pass_reusing(dfields, jfields, matches, used_json_fields, threshold) ==
    IF dfields = <<>> THEN matches
    ELSE LET db_field == Head(dfields)
             best_match == find_best_fuzzy_match(db_field, jfields)
         IN IF (\A k \in 1..Len(matches) : matches[k].db # db_field)
               /\ best_match.found
               /\ ratio_at_least(best_match.similarity, threshold)
            THEN fuzzy_pass_reusing(Tail(dfields), jfields,
                            Append(matches, [db |-> db_field, json |-> best_match.match,
                                             kind |-> "fuzzy", score |-> best_match.similarity]),
                            used_json_fields, threshold)
            ELSE fuzzy_pass_reusing(Tail(dfields), jfields, matches, used_json_fields, threshold)

\* a faulty second pass, kept to test the properties of the matching: the
\* best candidate is bound whatever its score
RECURSIVE fuzzy_pass_unthresholded(_, _, _, _, _)
fuzzy_pass_unthresholded(dfields, jfields, matches, used_json_fields, threshold) ==
    IF dfields = <<>> THEN matches
    ELSE LET db_field == Head(dfields)
             candidates == SelectSeq(jfields, LAMBDA f : f \notin used_json_fields)
             best_match == find_best_fuzzy_match(db_field, candidates)
         IN IF (\A k \in 1..Len(matches) : matches[k].db # db_field)
               /\ best_match.found
            THEN fuzzy_pass_unthresholded(Tail(dfields), jfields,
                            Append(matches, [db |-> db_field, json |-> best_match.match,
                                             kind |-> "fuzzy", score |-> best_match.similarity]),
                            used_json_fields \cup {best_match.match}, threshold)
            ELSE fuzzy_pass_unthresholded(Tail(dfields), jfields, matches, used_json_fields, threshold)

\* second pass of _find_matches: fuzzy matches
RECURSIVE fuzzy_pass(_, _, _, _, _)
fuzzy_pass(dfields, jfields, matches, used_json_fields, threshold) ==
    IF dfields = <<>> THEN matches
    ELSE LET db_field == Head(dfields)
             candidates == SelectSeq(jfields, LAMBDA f : f \notin used_json_fields)
             best_match == find_best_fuzzy_match(db_field, candidates)
         IN IF (\A k \in 1..Len(matches) : matches[k].db # db_field)
               /\ best_match.found
               /\ ratio_at_least(best_match.similarity, threshold)
            THEN fuzzy_pass(Tail(dfields), jfields,
                            Append(matches, [db |-> db_field, json |-> best_match.match,
                                             kind |-> "fuzzy", score |-> best_match.similarity]),
                            used_json_fields \cup {best_match.match}, threshold)
            ELSE fuzzy_pass(Tail(dfields), jfields, matches, used_json_fields, threshold)

\* FieldComparator._find_matches
find_matches(dfields, jfields, cfg) ==
    LET exact == exact_pass(dfields, jfields, <<>>, {})
    IN IF cfg.fuzzy_match
       THEN fuzzy_pass(dfields, jfields, exact.matches, exact.used, cfg.similarity_threshold)
       ELSE exact.matches

-----------------------------------------------------------------------------
(* Special-character validation of field values *)

default_excluded_from_validation ==
    { <<"h","e","l","m">>,
      <<"h","e","l","m","s">>,
      <<"h","e","l","m","n","o","t","a","t","i","o","n">>,
      <<"h","e","l","m","_","n","o","t","a","t","i","o","n">>,
      <<"m","o","l","s","t","r","u","c","t","u","r","e">>,
      <<"m","o","l","s","t","r","u","c","t","u","r","e","_","s","m","i","l","e","s">>,
      <<"m","o","l","s","t","r","u","c","t","u","r","e","s","m","i","l","e","s">>,
      <<"s","m","i","l","e","s">>,
      <<"s","m","i","l","e">>,
      <<"s","m","i","l","e","s","_","n","o","t","a","t","i","o","n">>,
      <<"s","m","i","l","e","s","n","o","t","a","t","i","o","n">>,
      <<"f","r","a","g","m","e","n","t","_","s","i","m","i","l","a","r","i","t","y">>,
      <<"f","r","a","g","m","e","n","t","s","i","m","i","l","a","r","i","t","y">>,
      <<"f","r","a","g","m","e","n","t","_","s","i","m","i","l","a","r","i","t","y","_","s","m","i","l","e","s">>,
      <<"f","r","a","g","m","e","n","t","s","i","m","i","l","a","r","i","t","y","s","m","i","l","e","s">>,
      <<"p","b","m","_","s","m","i","l","e","s">>,
      <<"u","b","m","_","s","m","i","l","e","s">>,
      <<"p","d","_","s","m","i","l","e","s">>,
      <<"p","h","o","t","o","l","a","b","i","l","e","_","s","m","i","l","e","s">>,
      <<"m","o","d","i","f","i","c","a","t","i","o","n","_","i","n","_","s","m","i","l","e","s">>,
      <<"m","o","d","i","f","i","c","a","t","i","o","n","i","n","s","m","i","l","e","s">>,
      <<"p","a","r","a","m","e","t","e","r","s">>,
      <<"p","a","r","a","m","e","t","e","r">> }

\* the normalisation of _is_excluded_field_with_database
exclusion_key(name) == remove_chars(lower(name), {" ", "_", "-", ".", ":"})

\* FieldComparator._is_excluded_field_with_database; excluded_keywords is
\* database_excluded_keywords[database_name], empty when none is set
is_excluded_field_with_database(field_name, excluded_keywords) ==
    LET normalized == exclusion_key(field_name)
    IN \/ \E excluded \in default_excluded_from_validation :
              is_substring(excluded, normalized) \/ is_substring(normalized, excluded)
       \/ \E k \in 1..Len(excluded_keywords) :
              is_substring(exclusion_key(excluded_keywords[k]), normalized)
       \/ is_substring(<<"m","o","l","s","t","r","u","c","t","u","r","e">>, normalized)
       \/ is_substring(<<"h","e","l","m">>, normalized)
       \/ is_substring(<<"s","m","i","l","e","s">>, normalized)
       \/ is_substring(<<"s","m","i","l","e">>, normalized)

\* the characters the allow-list of _get_special_characters_in_value accepts
AllowedValueChars ==
    Range(UpperChars) \cup Range(LowerChars) \cup Range(DigitChars)
    \cup {" ", "_", "-", ".", "(", ")", ",", ":", ";", "\"", "'"}

\* FieldComparator._get_special_characters_in_value
RECURSIVE special_chars_scan(_, _)
special_chars_scan(value, found) ==
    IF value = <<>> THEN found
    ELSE special_chars_scan(Tail(value),
            IF Head(value) \notin AllowedValueChars /\ Head(value) \notin Range(found)
            THEN Append(found, Head(value)) ELSE found)
get_special_characters_in_value(value) == special_chars_scan(value, <<>>)

\* FieldComparator._get_value_by_path; None is JNull
RECURSIVE walk_keys(_, _)
walk_keys(current, keys) ==
    IF keys = <<>> THEN current
    ELSE LET next == IF is_dict(current) THEN obj_get(current, Head(keys))
                     ELSE IF is_list(current)
                          THEN IF Len(current.items) > 0 /\ is_dict(current.items[1])
                               THEN obj_get(current.items[1], Head(keys))
                               ELSE JNull
                          ELSE JNull
         IN IF next = JNull THEN JNull ELSE walk_keys(next, Tail(keys))
get_value_by_path(obj, field_path) == walk_keys(obj, split_dots(field_path))

\* FieldComparator._extract_field_values: the dict as a list of <<path, value>>
RECURSIVE values_of_paths(_, _, _)
values_of_paths(record, field_paths, acc) ==
    IF field_paths = <<>> THEN acc
    ELSE LET value == get_value_by_path(record, Head(field_paths))
         IN values_of_paths(record, Tail(field_paths),
                IF value # JNull /\ ~dict_has(acc, Head(field_paths))
                THEN Append(acc, <<Head(field_paths), value>>) ELSE acc)
RECURSIVE values_of_records(_, _, _)
values_of_records(records, field_paths, acc) ==
    IF records = <<>> THEN acc
    ELSE values_of_records(Tail(records), field_paths,
            IF is_dict(Head(records)) THEN values_of_paths(Head(records), field_paths, acc)
            ELSE acc)
extract_field_values(data, field_paths) ==
    IF is_list(data) THEN values_of_records(data.items, field_paths, <<>>)
    ELSE IF is_dict(data) THEN values_of_paths(data, field_paths, <<>>)
    ELSE <<>>

\* FieldComparator._validate_field_values: the findings it appends to
\* validation_results['json'], or the exception json.loads lets escape
validate_field_values(json_data, field_paths, json_file, excluded_keywords) ==
    LET field_values == extract_field_values(json_data, field_paths)
        checked == SelectSeq(field_values,
                     LAMBDA fv : ~is_excluded_field_with_database(fv[1], excluded_keywords))
        flagged == SelectSeq(checked,
                     LAMBDA fv : fv[2].t = "str" /\ fv[2].s # <<>>
                                 /\ get_special_characters_in_value(fv[2].s) # <<>>)
    IN [raised |-> \E k \in 1..Len(checked) : checked[k][2] = DeepStr,
        findings |-> [k \in 1..Len(flagged) |->
                        [field |-> flagged[k][1],
                         special_chars |-> get_special_characters_in_value(flagged[k][2].s),
                         file |-> json_file]]]

-----------------------------------------------------------------------------
(* FieldComparator.compare *)

\* the dict {norm: orig for norm, orig in zip(normalized, fields)}
normalized_to_original(normalized, fields) ==
    [k \in 1..Len(fields) |-> <<normalized[k], fields[k]>>]

\* the null / category lookups compare makes for one normalized catalog field
null_flags(db_field, normalized_category_mapping, normalized_null_categories, normalized_array_mapping, cfg) ==
    LET array_name == dict_get(normalized_array_mapping, db_field, <<>>)
        array_is_null == IF array_name # <<>>
                         THEN dict_get(normalized_null_categories, array_name, FALSE)
                         ELSE FALSE
        category == dict_get(normalized_category_mapping, db_field, <<>>)
        category_is_null ==
            IF category # <<>> /\ array_name = <<>>
            THEN dict_get(normalized_null_categories,
                          normalize_category(category, cfg.case_sensitive), FALSE)
            ELSE FALSE
    IN [array_is_null |-> array_is_null, category_is_null |-> category_is_null,
        category |-> category]

\* the test of lines 143-144: a matched pair is skipped
skip_matched(flags) == flags.array_is_null \/ flags.category_is_null

\* a faulty test, kept to test the reports of null arrays: an unmatched
\* catalog field is skipped by the rule of the matched pairs
skip_unmatched_db_as_matched(flags, db_field, normalized_category_mapping) ==
    flags.array_is_null \/ flags.category_is_null

\* the test of lines 185-186: an unmatched catalog field is skipped
skip_unmatched_db(flags, db_field, normalized_category_mapping) ==
    (flags.array_is_null \/ flags.category_is_null)
    /\ ~dict_has(normalized_category_mapping, db_field)

\* one 'matched' record (lines 146-157)
matched_result(pair, db_normalized_to_original, json_normalized_to_original, json_file) ==
    [field_name |-> dict_get(db_normalized_to_original, pair.db, pair.db),
     db_field |-> dict_get(db_normalized_to_original, pair.db, pair.db),
     json_field |-> dict_get(json_normalized_to_original, pair.json, pair.json),
     status |-> "matched",
     match_type |-> pair.kind,
     score |-> pair.score,
     category |-> <<>>,
     json_file |-> json_file]

\* one 'unmatched_db' record (lines 188-198)
unmatched_db_result(db_field, db_normalized_to_original, category, json_file) ==
    [field_name |-> dict_get(db_normalized_to_original, db_field, db_field),
     db_field |-> dict_get(db_normalized_to_original, db_field, db_field),
     json_field |-> <<>>,
     status |-> "unmatched_db",
     match_type |-> "not_found",
     score |-> <<0, 1>>,
     category |-> category,
     json_file |-> json_file]

\* one 'unmatched_json' record (lines 204-214)
unmatched_json_result(json_field, json_normalized_to_original, json_file) ==
    [field_name |-> dict_get(json_normalized_to_original, json_field, json_field),
     db_field |-> <<>>,
     json_field |-> dict_get(json_normalized_to_original, json_field, json_field),
     status |-> "unmatched_json",
     match_type |-> "not_found",
     score |-> <<0, 1>>,
     category |-> <<>>,
     json_file |-> json_file]

\* the loop over matched pairs (lines 127-157)
matched_results(matched_pairs, db_normalized_to_original, json_normalized_to_original, normalized_category_mapping, normalized_null_categories, normalized_array_mapping, json_file, cfg) ==
    LET kept(pair) == ~skip_matched(null_flags(pair.db, normalized_category_mapping,
                                               normalized_null_categories,
                                               normalized_array_mapping, cfg))
        kept_pairs == SelectSeq(matched_pairs, kept)
    IN [k \in 1..Len(kept_pairs) |->
            matched_result(kept_pairs[k], db_normalized_to_original,
                           json_normalized_to_original, json_file)]

\* the loop over unmatched catalog fields (lines 160-198)
unmatched_db_results(matched_pairs, db_fields_normalized, db_normalized_to_original, normalized_category_mapping, normalized_null_categories, normalized_array_mapping, json_file, cfg) ==
    LET flags(f) == null_flags(f, normalized_category_mapping, normalized_null_categories,
                               normalized_array_mapping, cfg)
        reported(f) == /\ \A k \in 1..Len(matched_pairs) : matched_pairs[k].db # f
                       /\ ~skip_unmatched_db(flags(f), f, normalized_category_mapping)
        unmatched_db == SelectSeq(db_fields_normalized, reported)
    IN [k \in 1..Len(unmatched_db) |->
            unmatched_db_result(unmatched_db[k], db_normalized_to_original,
                                flags(unmatched_db[k]).category, json_file)]

\* the loop over unmatched JSON fields (lines 201-214)
unmatched_json_results(matched_pairs, json_fields_normalized, json_normalized_to_original, json_file) ==
    LET unmatched(f) == \A k \in 1..Len(matched_pairs) : matched_pairs[k].json # f
        unmatched_json == SelectSeq(json_fields_normalized, unmatched)
    IN [k \in 1..Len(unmatched_json) |->
            unmatched_json_result(unmatched_json[k], json_normalized_to_original, json_file)]

\* the three loops of compare over the pairs find_matches returned
compare_results(matched_pairs, db_fields_normalized, json_fields_normalized, db_normalized_to_original, json_normalized_to_original, normalized_category_mapping, normalized_null_categories, normalized_array_mapping, json_file, cfg) ==
    matched_results(matched_pairs, db_normalized_to_original, json_normalized_to_original,
                    normalized_category_mapping, normalized_null_categories,
                    normalized_array_mapping, json_file, cfg)
    \o unmatched_db_results(matched_pairs, db_fields_normalized, db_normalized_to_original,
                            normalized_category_mapping, normalized_null_categories,
                            normalized_array_mapping, json_file, cfg)
    \o unmatched_json_results(matched_pairs, json_fields_normalized,
                              json_normalized_to_original, json_file)

\* the normalized copy of a mapping whose keys are field names (lines 100-108, 118-125)
normalize_mapping_keys(mapping, case_sensitive) ==
    [k \in 1..Len(mapping) |-> <<normalize_field(mapping[k][1], case_sensitive), mapping[k][2]>>]

\* the normalized copy of the null-category mapping (lines 110-116)
normalize_null_categories(null_categories, case_sensitive) ==
    [k \in 1..Len(null_categories) |->
        <<normalize_category(null_categories[k][1], case_sensitive), null_categories[k][2]>>]

\* the normalized copy of the field -> array mapping (lines 118-125)
normalize_array_mapping(array_field_mapping, case_sensitive) ==
    [k \in 1..Len(array_field_mapping) |->
        <<normalize_field(array_field_mapping[k][1], case_sensitive),
          normalize_category(array_field_mapping[k][2], case_sensitive)>>]

\* compare once the field lists are normalized and the pairs are found
compare_normalized(matched_pairs, validation, dfields, jfields, db_fields_normalized, json_fields_normalized, field_category_mapping, null_categories, array_field_mapping, json_file, cfg) ==
    [raised |-> validation.raised,
     results |-> IF validation.raised THEN <<>>
                 ELSE compare_results(
                        matched_pairs, db_fields_normalized, json_fields_normalized,
                        normalized_to_original(db_fields_normalized, dfields),
                        normalized_to_original(json_fields_normalized, jfields),
                        normalize_mapping_keys(field_category_mapping, cfg.case_sensitive),
                        normalize_null_categories(null_categories, cfg.case_sensitive),
                        normalize_array_mapping(array_field_mapping, cfg.case_sensitive),
                        json_file, cfg),
     findings |-> IF validation.raised THEN <<>> ELSE validation.findings,
     matched_pairs |-> matched_pairs]

\* the value validation compare runs when it is handed the document (lines 217-218)
compare_validation(json_data, jfields, json_file, excluded_keywords) ==
    IF json_data # JNull
    THEN validate_field_values(json_data, jfields, json_file, excluded_keywords)
    ELSE [raised |-> FALSE, findings |-> <<>>]

\* FieldComparator.compare: the results list, the findings added to
\* validation_results['json'] and whether the call raised
compare(dfields, jfields, field_category_mapping, null_categories, array_field_mapping, json_data, json_file, excluded_keywords, cfg) ==
    compare_normalized(
        find_matches(normalize_fields(dfields, cfg.case_sensitive),
                     normalize_fields(jfields, cfg.case_sensitive), cfg),
        compare_validation(json_data, jfields, json_file, excluded_keywords),
        dfields, jfields,
        normalize_fields(dfields, cfg.case_sensitive),
        normalize_fields(jfields, cfg.case_sensitive),
        field_category_mapping, null_categories, array_field_mapping, json_file, cfg)

-----------------------------------------------------------------------------
(* FieldLoader: a database is a flat list of fields or a list of tables    *)
(* (categories), each with its list of fields, in insertion order.         *)

FlatDatabase(fields) == [kind |-> "list", fields |-> fields]
TableDatabase(tables) == [kind |-> "tables", tables |-> tables]

RECURSIVE concat_all(_)
concat_all(lists) == IF lists = <<>> THEN <<>> ELSE Head(lists) \o concat_all(Tail(lists))

\* FieldLoader.get_fields(database) with no table name
get_fields(db_data) ==
    IF db_data.kind = "list" THEN db_data.fields
    ELSE concat_all([k \in 1..Len(db_data.tables) |-> db_data.tables[k][2]])

\* FieldLoader.get_tables
get_tables(db_data) ==
    IF db_data.kind = "list" THEN <<>>
    ELSE [k \in 1..Len(db_data.tables) |-> db_data.tables[k][1]]

\* FieldLoader.get_field_category_mapping, as the list of its assignments
get_field_category_mapping(db_data) ==
    IF db_data.kind = "list" THEN <<>>
    ELSE concat_all([k \in 1..Len(db_data.tables) |->
            [m \in 1..Len(db_data.tables[k][2]) |->
                <<db_data.tables[k][2][m], db_data.tables[k][1]>>]])

\* FieldMapperApp.load_database_fields: self.all_db_fields
load_database_fields(db_data) == get_fields(db_data) \o get_tables(db_data)

-----------------------------------------------------------------------------
(* The comparison of one file and of one record, as                        *)
(* _process_comparison_batch sets it up                                     *)

\* the comparator the application constructs: FieldComparator()
DefaultConfig == [case_sensitive |-> FALSE, fuzzy_match |-> TRUE, similarity_threshold |-> 80]

\* lines 1156-1196: field list, null categories and array mapping of a loaded
\* file, and the comparison of the file
compare_file(db_data, json_data, json_file, excluded_keywords, cfg) ==
    compare(load_database_fields(db_data),
            sorted(extract_all_fields(json_data, <<>>)),
            get_field_category_mapping(db_data),
            file_null_categories(json_data),
            extract_array_fields_recursive(json_data),
            json_data, json_file, excluded_keywords, cfg)

\* the inline normalisation of lines 1324-1339
inline_normalize(name) == lower(remove_chars(name, {" ", "_", "-", "."}))

\* lines 1317-1325: the array mapping read from the record itself
RECURSIVE record_items_mapping(_, _)
record_items_mapping(items, key) ==
    IF items = <<>> THEN <<>>
    ELSE (IF is_dict(Head(items))
          THEN [k \in 1..Len(Head(items).keys) |-> <<inline_normalize(Head(items).keys[k]), key>>]
          ELSE <<>>)
         \o record_items_mapping(Tail(items), key)
record_json_mapping(record) ==
    concat_all([k \in 1..Len(record.keys) |->
        IF is_list(record.vals[k]) THEN record_items_mapping(record.vals[k].items, record.keys[k])
        ELSE <<>>])

\* lines 1327-1342: catalog fields whose array is a key of the record are added
RECURSIVE add_catalog_mapping(_, _, _)
add_catalog_mapping(field_category_mapping, record, record_array_mapping) ==
    IF field_category_mapping = <<>> THEN record_array_mapping
    ELSE LET normalized_db_field == inline_normalize(Head(field_category_mapping)[1])
             array_name == Head(field_category_mapping)[2]
             normalized_array == inline_normalize(array_name)
         IN add_catalog_mapping(Tail(field_category_mapping), record,
                IF ~dict_has(record_array_mapping, normalized_db_field)
                   /\ \E k \in 1..Len(record.keys) : inline_normalize(record.keys[k]) = normalized_array
                THEN Append(record_array_mapping, <<normalized_db_field, array_name>>)
                ELSE record_array_mapping)

\* lines 1301-1355: the comparison of one record of a multi-record file
compare_record(db_data, record, json_file, excluded_keywords, cfg) ==
    compare(load_database_fields(db_data),
            sorted(extract_all_fields(record, <<>>)),
            get_field_category_mapping(db_data),
            record_null_categories(record),
            add_catalog_mapping(get_field_category_mapping(db_data), record,
                                record_json_mapping(record)),
            record, json_file, excluded_keywords, cfg)

-----------------------------------------------------------------------------
(* SpecCompare: one comparison of one document against one catalog         *)

n_bio == <<"b","i","o">>
n_Dose == <<"D","o","s","e">>
n_doses == <<"d","o","s","e","s">>
n_Unit == <<"U","n","i","t">>
n_PK == <<"P","K">>
n_T_half == <<"T","_","h","a","l","f">>
n_t_half == <<"t","-","h","a","l","f">>
n_Note == <<"N","o","t","e">>

v_plain == JStr(<<"5">>)
v_percent == JStr(<<"5","%">>)

\* the catalogs of the model: two tables, a flat list, and two tables that
\* list the same field
CatalogTables == TableDatabase(<< <<n_bio, <<n_Dose, n_Unit>>>>, <<n_PK, <<n_T_half>>>> >>)
CatalogFlat == FlatDatabase(<<n_Dose, n_Unit, n_T_half>>)
CatalogShared == TableDatabase(<< <<n_bio, <<n_Dose>>>>, <<n_PK, <<n_Dose, n_T_half>>>> >>)
Catalogs == {CatalogTables, CatalogFlat, CatalogShared}

\* the values the top-level keys of a document take; Absent: no such key
Absent == [t |-> "absent"]
BioValues ==
    { Absent, JNull, JArr(<<>>),
      JArr(<<JObj(<<n_Dose>>, <<v_plain>>)>>),
      JArr(<<JObj(<<n_Dose, n_Unit>>, <<v_percent, v_plain>>)>>),
      JArr(<<JObj(<<n_Dose>>, <<v_plain>>), JObj(<<n_Unit>>, <<v_percent>>)>>) }
PKValues ==
    { Absent, JNull, v_plain,
      JObj(<<n_T_half>>, <<v_plain>>),
      JObj(<<n_t_half>>, <<v_percent>>) }
ExtraValues == { Absent, v_plain }

\* the object with the given values of the keys bio, PK and doses
make_record(b, p, e) ==
    LET pairs == SelectSeq(<< <<n_bio, b>>, <<n_PK, p>>, <<n_doses, e>> >>,
                           LAMBDA kv : kv[2] # Absent)
    IN JObj([k \in 1..Len(pairs) |-> pairs[k][1]], [k \in 1..Len(pairs) |-> pairs[k][2]])

Records == { make_record(b, p, e) : b \in BioValues, p \in PKValues, e \in ExtraValues }

\* multi-record files: a root array of two records
RootRecords ==
    { make_record(JArr(<<>>), Absent, Absent),
      make_record(JArr(<<JObj(<<n_Dose>>, <<v_percent>>)>>), JNull, Absent),
      make_record(Absent, JObj(<<n_T_half>>, <<v_plain>>), v_plain) }
RootArrays == { JArr(<<r1, r2>>) : r1 \in RootRecords, r2 \in RootRecords }

Documents == Records \cup RootArrays

Configs ==
    { DefaultConfig,
      [case_sensitive |-> FALSE, fuzzy_match |-> TRUE, similarity_threshold |-> 95],
      [case_sensitive |-> TRUE, fuzzy_match |-> FALSE, similarity_threshold |-> 80] }

NoOutcome == [call |-> "none"]

InitBatchIdle ==
    /\ json_files_list = [head |-> <<>>, pad |-> 0]
    /\ pc = "off"
    /\ path = "none"
    /\ i = 0
    /\ processed = 0
    /\ file_stats = [success |-> 0, failed |-> 0]
    /\ field_stats = <<>>
    /\ fields_exist_in_json = {}
    /\ array_fields_missing_files = <<>>
    /\ all_results = <<>>
    /\ json_fields = <<>>
    /\ validation_results = <<>>
    /\ fields_with_special_chars = <<>>
    /\ record_unmatched_info = {}
    /\ runs = 0

InitUIIdle ==
    /\ is_processing = FALSE
    /\ buttons_enabled = TRUE
    /\ ui_files = 0
    /\ workers = <<>>
    /\ after_queue = <<>>
    /\ signals = <<>>
    /\ last_handled = [name |-> "none", worker |-> 0, display |-> "none"]

InitCompare ==
    /\ cmp_in \in [catalog : Catalogs, document : Documents, config : Configs]
    /\ cmp_out = NoOutcome
    /\ InitBatchIdle
    /\ InitUIIdle

\* the file-level call of compare (lines 1186-1196 and 1584-1594)
CompareFile ==
    /\ cmp_out = NoOutcome
    /\ cmp_out' = [call |-> "file", record |-> cmp_in.document,
                   null_categories |-> file_null_categories(cmp_in.document),
                   array_field_mapping |-> extract_array_fields_recursive(cmp_in.document),
                   outcome |-> compare_file(cmp_in.catalog, cmp_in.document, "file",
                                            <<>>, cmp_in.config)]
    /\ UNCHANGED <<cmp_in, batchVars, uiVars>>

\* the arguments and the outcome of the record-level call for one record
record_call(db_data, record, cfg) ==
    [call |-> "record", record |-> record,
     null_categories |-> record_null_categories(record),
     array_field_mapping |-> add_catalog_mapping(get_field_category_mapping(db_data),
                                                 record, record_json_mapping(record)),
     outcome |-> compare_record(db_data, record, "file", <<>>, cfg)]

\* a record-level call of compare (lines 1345-1355 and 1706-1716)
CompareRecord ==
    /\ cmp_out = NoOutcome
    /\ Len(get_records(cmp_in.document)) > 1
    /\ \E k \in 1..Len(get_records(cmp_in.document)) :
          cmp_out' = record_call(cmp_in.catalog, get_records(cmp_in.document)[k],
                                 cmp_in.config)
    /\ UNCHANGED <<cmp_in, batchVars, uiVars>>

NextCompare == CompareFile \/ CompareRecord

SpecCompare == InitCompare /\ [][NextCompare]_vars

-----------------------------------------------------------------------------
(* Suppression of catalog fields of null or empty categories               *)

\* the category that owns a catalog field, or <<>> (field -> category mapping)
owning_category(db_data, field) == dict_get(get_field_category_mapping(db_data), field, <<>>)

\* the field has an entry in the field -> array mapping handed to compare
array_owned(array_field_mapping, field, cfg) ==
    \E k \in 1..Len(array_field_mapping) :
        normalize_field(array_field_mapping[k][1], cfg.case_sensitive)
            = normalize_field(field, cfg.case_sensitive)

\* the null-category map handed to compare flags the category as null or empty
flagged_null(null_categories, category, cfg) ==
    \E k \in 1..Len(null_categories) :
        /\ normalize_category(null_categories[k][1], cfg.case_sensitive)
              = normalize_category(category, cfg.case_sensitive)
        /\ dict_get(null_categories, null_categories[k][1], FALSE)

\* the statuses the outcome reports for a catalog field
statuses_of(results, field) ==
    {results[k].status : k \in {n \in 1..Len(results) : results[n].db_field = field}}

\* C1: in every call of compare, a catalog field that is not matched and whose
\* owning category is a non-array category flagged null or empty in the
\* null-category map is never reported with status unmatched_db.
C1_CategoryNullNeverMissing ==
    cmp_out.call \in {"file", "record"} =>
        \A k \in 1..Len(cmp_out.outcome.results) :
            LET r == cmp_out.outcome.results[k]
            IN r.status = "unmatched_db" =>
                 ~(/\ owning_category(cmp_in.catalog, r.db_field) # <<>>
                   /\ ~array_owned(cmp_out.array_field_mapping, r.db_field, cmp_in.config)
                   /\ flagged_null(cmp_out.null_categories,
                                   owning_category(cmp_in.catalog, r.db_field),
                                   cmp_in.config))

\* the top-level keys of the compared document that hold an empty array
empty_array_keys(document) ==
    IF is_dict(document)
    THEN {document.keys[k] : k \in {n \in 1..Len(document.keys) : document.vals[n] = JArr(<<>>)}}
    ELSE {}

\* the catalog fields whose owning category has the normalized name of the key
fields_of_category(db_data, key, cfg) ==
    {f \in Range(load_database_fields(db_data)) :
        /\ owning_category(db_data, f) # <<>>
        /\ normalize_category(owning_category(db_data, f), cfg.case_sensitive)
              = normalize_category(key, cfg.case_sensitive)}

\* C2: when a top-level key of the document holds an empty array and the catalog
\* has a category of the same normalized name, the comparison of that document
\* reports no field of that category, neither as matched nor as unmatched_db.
C2_EmptyArrayCategorySuppressed ==
    cmp_out.call = "file" =>
        \A key \in empty_array_keys(cmp_in.document) :
            \A f \in fields_of_category(cmp_in.catalog, key, cmp_in.config) :
                statuses_of(cmp_out.outcome.results, f) \cap {"matched", "unmatched_db"} = {}

-----------------------------------------------------------------------------
(* The files of a batch                                                    *)

\* load_json returns None for a file it cannot parse (json_parser.py 121-194)
NotLoaded == [t |-> "none"]

\* the catalog selected while batches run
BatchCatalog == CatalogTables

\* the contents of the files a folder can hold
FullDocument ==
    make_record(JArr(<<JObj(<<n_Dose, n_Unit>>, <<v_plain, v_plain>>)>>),
                JObj(<<n_T_half>>, <<v_plain>>), Absent)
EmptyArrayDocument == make_record(JArr(<<>>), JObj(<<n_T_half>>, <<v_plain>>), Absent)
RecordsDocument ==
    JArr(<<make_record(JArr(<<JObj(<<n_Dose>>, <<v_percent>>)>>), Absent, Absent),
           make_record(Absent, JObj(<<n_T_half>>, <<v_plain>>), Absent)>>)
DeepRecordDocument ==
    JArr(<<JObj(<<n_Note>>, <<v_plain>>), JObj(<<n_Note>>, <<DeepStr>>)>>)
DeepDocument == JObj(<<n_Note>>, <<DeepStr>>)

\* file name -> what load_json returns for it; "pad" names every filler file
FileNames == {"full", "empty", "bad", "records", "deeprecord", "deep"}
load_json(json_file) ==
    CASE json_file = "full" -> FullDocument
      [] json_file = "empty" -> EmptyArrayDocument
      [] json_file = "records" -> RecordsDocument
      [] json_file = "deeprecord" -> DeepRecordDocument
      [] json_file = "deep" -> DeepDocument
      [] OTHER -> NotLoaded

\* f"{json_file} (Record {record_idx})" of lines 1349 and 1710
record_file_name(json_file, record_idx) ==
    json_file \o " (Record " \o ToString(record_idx) \o ")"

\* the record-level comparisons of a file (lines 1297-1355), in record order
record_runs(json_file, excluded_keywords, cfg) ==
    [k \in 1..Len(get_records(load_json(json_file))) |->
        compare_record(BatchCatalog, get_records(load_json(json_file))[k],
                       record_file_name(json_file, k), excluded_keywords, cfg)]

\* everything the loop body computes from one file's content
file_run(json_file) ==
    IF load_json(json_file) = NotLoaded
    THEN [loaded |-> FALSE]
    ELSE [loaded |-> TRUE,
          json_fields |-> sorted(extract_all_fields(load_json(json_file), <<>>)),
          compared |-> compare_file(BatchCatalog, load_json(json_file), json_file,
                                    <<>>, DefaultConfig),
          records |-> IF Len(get_records(load_json(json_file))) > 1
                      THEN record_runs(json_file, <<>>, DefaultConfig)
                      ELSE <<>>]

FileRuns == [f \in FileNames \cup {"pad"} |-> file_run(f)]

-----------------------------------------------------------------------------
(* _process_comparison_batch: the worker of a comparison batch             *)

\* the sizes that select the path and the slices of the loop
AggregateThreshold == 1000
AggregateBatchSize == 10
CollectBatchSize == 50

\* defaultdict default of line 1133
stat_zero == [matched |-> 0, unmatched_db |-> 0, unmatched_json |-> 0, category_null |-> 0]

\* a faulty update of the counters, kept to test the properties of the
\* aggregation: the entry is replaced, so the status of the last file wins
stat_put(stats, field_name, column) ==
    IF dict_has(stats, field_name)
    THEN [k \in 1..Len(stats) |->
            IF stats[k][1] = field_name
            THEN <<field_name, [stat_zero EXCEPT ![column] = 1]>>
            ELSE stats[k]]
    ELSE Append(stats, <<field_name, [stat_zero EXCEPT ![column] = 1]>>)

\* field_stats[field_name][column] += 1 on the insertion-ordered defaultdict
stat_add(stats, field_name, column) ==
    IF dict_has(stats, field_name)
    THEN [k \in 1..Len(stats) |->
            IF stats[k][1] = field_name
            THEN <<field_name, [stats[k][2] EXCEPT ![column] = @ + 1]>>
            ELSE stats[k]]
    ELSE Append(stats, <<field_name, [stat_zero EXCEPT ![column] = 1]>>)

\* array_fields_missing_files[field_name].append(file) (line 1281)
missing_add(missing, field_name, json_file) ==
    IF dict_has(missing, field_name)
    THEN [k \in 1..Len(missing) |->
            IF missing[k][1] = field_name
            THEN <<field_name, Append(missing[k][2], json_file)>>
            ELSE missing[k]]
    ELSE Append(missing, <<field_name, <<json_file>>>>)

\* array_field_names of line 1139: the keys of the field -> category mapping
array_field_names == {kv[1] : kv \in Range(get_field_category_mapping(BatchCatalog))}

\* lines 1260-1266: fields that exist in this file
exist_in_json(results) ==
    {results[k].field_name :
        k \in {n \in 1..Len(results) : results[n].status \in {"matched", "unmatched_json"}}}

\* lines 1270-1283 for one result
aggregate_result(w, result, json_file) ==
    IF result.status = "matched"
    THEN [w EXCEPT !.field_stats = stat_add(@, result.field_name, "matched")]
    ELSE IF result.status = "unmatched_db"
    THEN IF result.match_type # "category_null"
         THEN [w EXCEPT !.field_stats = stat_add(@, result.field_name, "unmatched_db"),
                        !.array_fields_missing_files =
                            IF result.field_name \in array_field_names
                            THEN missing_add(@, result.field_name, json_file)
                            ELSE @]
         ELSE w
    ELSE IF result.status = "unmatched_json"
    THEN [w EXCEPT !.field_stats = stat_add(@, result.field_name, "unmatched_json")]
    ELSE w

\* lines 1268-1283: the loop over the results of a file
RECURSIVE aggregate_results(_, _, _)
aggregate_results(w, results, json_file) ==
    IF results = <<>> THEN w
    ELSE aggregate_results(aggregate_result(w, Head(results), json_file),
                           Tail(results), json_file)

\* the names of the results with the given status (lines 1358-1359, 1371-1372)
names_with_status(results, status) ==
    [k \in 1..Len(SelectSeq(results, LAMBDA r : r.status = status)) |->
        SelectSeq(results, LAMBDA r : r.status = status)[k].field_name]

\* lines 1345-1373 (1706-1730) for one record whose comparison returned
record_done(w, run, json_file, record_idx) ==
    [w EXCEPT
        !.validation_results = @ \o run.findings,
        !.record_unmatched_info =
            IF names_with_status(run.results, "unmatched_json") # <<>>
               \/ names_with_status(run.results, "unmatched_db") # <<>>
            THEN @ \cup {[file |-> json_file, record_idx |-> record_idx,
                          unmatched_json |-> names_with_status(run.results, "unmatched_json"),
                          unmatched_db |-> names_with_status(run.results, "unmatched_db")]}
            ELSE @]

\* lines 1297-1373 (1657-1730): the loop over the records of a file; the
\* comparison of a record that raises ends the loop with the exception
RECURSIVE records_loop(_, _, _, _)
records_loop(w, runs_of_records, json_file, record_idx) ==
    IF record_idx > Len(runs_of_records) THEN [raised |-> FALSE, w |-> w]
    ELSE IF runs_of_records[record_idx].raised THEN [raised |-> TRUE, w |-> w]
    ELSE records_loop(record_done(w, runs_of_records[record_idx], json_file, record_idx),
                      runs_of_records, json_file, record_idx + 1)

\* lines 1157-1161 (1555-1559): the cache of extracted field lists
cache_fields(cache, json_file, fields) ==
    IF dict_has(cache, json_file) THEN cache ELSE Append(cache, <<json_file, fields>>)

\* lines 1198-1223 (1597-1622): the comparator's findings are copied to
\* fields_with_special_chars and the comparator's accumulator is cleared
collect_validation(w, findings) ==
    [w EXCEPT !.fields_with_special_chars = @ \o w.validation_results \o findings,
              !.validation_results = <<>>]

\* a faulty count, kept to test the counting of files: the failure of a file
\* is counted after the file was counted as processed successfully
count_failed_after_success(w) ==
    [w EXCEPT !.file_stats.success = @ + 1, !.file_stats.failed = @ + 1,
              !.processed = @ + 2]

\* lines 1151-1154 and 1427-1429: the file is counted as failed
count_failed(w) ==
    [w EXCEPT !.file_stats.failed = @ + 1, !.processed = @ + 1]

\* lines 1394-1395: the file is counted as processed successfully
count_success(w) ==
    [w EXCEPT !.file_stats.success = @ + 1, !.processed = @ + 1]

\* lines 1394-1395 and 1427-1429: how the file is counted after its records
count_file(looped) ==
    IF looped.raised THEN count_failed(looped.w) ELSE count_success(looped.w)

\* lines 1258-1283: fields seen in the file and the per-field counters
aggregate_file_results(w, results, json_file) ==
    aggregate_results(
        [w EXCEPT !.fields_exist_in_json = @ \cup exist_in_json(results)],
        results, json_file)

\* lines 1147-1438: the body of the loop of the incremental path for one file,
\* given what the file's content makes load_json and compare return
process_run_aggregate(w, run, json_file) ==
    IF ~run.loaded THEN count_failed(w)
    ELSE IF run.compared.raised
    THEN count_failed([w EXCEPT !.json_fields = cache_fields(@, json_file, run.json_fields)])
    ELSE count_file(
            records_loop(
                aggregate_file_results(
                    collect_validation(
                        [w EXCEPT !.json_fields = cache_fields(@, json_file, run.json_fields)],
                        run.compared.findings),
                    run.compared.results, json_file),
                run.records, json_file, 1))

\* lines 1551, 1732 and 1755: the collect path only counts the file as processed
count_processed(w) == [w EXCEPT !.processed = @ + 1]

\* lines 1546-1758: the body of the loop of the collect path for one file
process_run_collect(w, run, json_file) ==
    IF ~run.loaded THEN count_processed(w)
    ELSE IF run.compared.raised
    THEN count_processed([w EXCEPT !.json_fields = cache_fields(@, json_file, run.json_fields)])
    ELSE count_processed(
            records_loop(
                collect_validation(
                    [w EXCEPT !.json_fields = cache_fields(@, json_file, run.json_fields),
                              !.all_results = @ \o run.compared.results],
                    run.compared.findings),
                run.records, json_file, 1).w)

\* json_files_to_process: the files of the folder, then the filler files
total_files(files) == Len(files.head) + files.pad
file_at(files, k) == IF k <= Len(files.head) THEN files.head[k] ELSE "pad"

\* the inner loop of lines 1146-1438 over the slice [from, to)
RECURSIVE aggregate_slice(_, _, _, _, _)
aggregate_slice(w, file_runs, files, from, to) ==
    IF from >= to THEN w
    ELSE aggregate_slice(process_run_aggregate(w, file_runs[file_at(files, from + 1)],
                                               file_at(files, from + 1)),
                         file_runs, files, from + 1, to)

\* the inner loop of lines 1545-1758 over the slice [from, to)
RECURSIVE collect_slice(_, _, _, _, _)
collect_slice(w, file_runs, files, from, to) ==
    IF from >= to THEN w
    ELSE collect_slice(process_run_collect(w, file_runs[file_at(files, from + 1)],
                                           file_at(files, from + 1)),
                       file_runs, files, from + 1, to)

min(a, b) == IF a < b THEN a ELSE b

\* a faulty sweep, kept to test the bound of the cache: a very large batch
\* drops the cache at every thousandth file, with the collection of garbage
cache_after_aggregate_batch_by_thousand(cache, total, index, batch_size) ==
    IF total > 50000
    THEN (IF index > 0 /\ index % 1000 = 0 THEN <<>> ELSE cache)
    ELSE IF index > 0 /\ index % (batch_size * 10) = 0 THEN <<>> ELSE cache

\* lines 1440-1453: the cache is dropped at the end of some iterations
cache_after_aggregate_batch(cache, total, index, batch_size) ==
    IF total > 50000
    THEN (IF index > 0 /\ index % 100 = 0 THEN <<>> ELSE cache)
    ELSE IF index > 0 /\ index % (batch_size * 10) = 0 THEN <<>> ELSE cache

\* lines 1760-1770: the cache keeps its most recent entries
cache_after_collect_batch(cache, total, index, batch_size) ==
    IF total > 50000
    THEN (IF index > 0 /\ index % 100 = 0 THEN <<>> ELSE cache)
    ELSE IF index > 0 /\ index % (batch_size * 5) = 0
    THEN SubSeq(cache, Len(cache) - min(Len(cache), batch_size) + 1, Len(cache))
    ELSE cache

\* lines 1117-1128: the slice size chosen from the number of files
batch_size_for(total) ==
    IF total > 50000 THEN 1
    ELSE IF total > 10000 THEN 1
    ELSE IF total > AggregateThreshold THEN AggregateBatchSize
    ELSE CollectBatchSize

\* the collect path has no file_stats: it hands None to the display (line 1795)
NoFileStats == [t |-> "none"]

\* the state the loop body reads and writes
worker_state ==
    [processed |-> processed, file_stats |-> file_stats, field_stats |-> field_stats,
     fields_exist_in_json |-> fields_exist_in_json,
     array_fields_missing_files |-> array_fields_missing_files,
     all_results |-> all_results, json_fields |-> json_fields,
     validation_results |-> validation_results,
     fields_with_special_chars |-> fields_with_special_chars,
     record_unmatched_info |-> record_unmatched_info]

\* the loop body's state is written back
set_worker_state(w) ==
    /\ processed' = w.processed
    /\ file_stats' = w.file_stats
    /\ field_stats' = w.field_stats
    /\ fields_exist_in_json' = w.fields_exist_in_json
    /\ array_fields_missing_files' = w.array_fields_missing_files
    /\ all_results' = w.all_results
    /\ json_fields' = w.json_fields
    /\ validation_results' = w.validation_results
    /\ fields_with_special_chars' = w.fields_with_special_chars
    /\ record_unmatched_info' = w.record_unmatched_info

\* lines 1497-1503: the file names shown for a missing array field
files_str(missing_files) ==
    [files |-> SubSeq(missing_files, 1, min(Len(missing_files), 10)),
     more |-> IF Len(missing_files) <= 10 THEN 0 ELSE Len(missing_files) - 10]

\* lines 1483-1528: the report entries of one field of field_stats
convert_stat(field_name, stats, missing, exist) ==
    IF stats.matched > 0
    THEN <<[field_name |-> field_name, status |-> "matched",
            match_type |-> [text |-> "matched", times |-> stats.matched],
            db_field |-> field_name, json_field |-> field_name]>>
    ELSE IF stats.unmatched_db > 0
    THEN IF field_name \in array_field_names
         THEN IF dict_get(missing, field_name, <<>>) # <<>>
              THEN <<[field_name |-> field_name, status |-> "unmatched_db",
                      match_type |-> [text |-> "not_found in",
                                      files |-> files_str(dict_get(missing, field_name, <<>>))],
                      db_field |-> field_name, json_field |-> <<>>]>>
              ELSE <<>>
         ELSE IF field_name \notin exist
              THEN <<[field_name |-> field_name, status |-> "unmatched_db",
                      match_type |-> [text |-> "not_found", times |-> stats.unmatched_db],
                      db_field |-> field_name, json_field |-> <<>>]>>
              ELSE <<>>
    ELSE IF stats.unmatched_json > 0
    THEN <<[field_name |-> field_name, status |-> "unmatched_json",
            match_type |-> [text |-> "not_found", times |-> stats.unmatched_json],
            db_field |-> <<>>, json_field |-> field_name]>>
    ELSE <<>>

\* lines 1480-1528: field_stats converted to the results handed to the display
convert_stats(stats, missing, exist) ==
    concat_all([k \in 1..Len(stats) |-> convert_stat(stats[k][1], stats[k][2], missing, exist)])

-----------------------------------------------------------------------------
(* SpecBatch: folders are selected and compared, one batch after another    *)

MaxHead == 2
PadFiles == 1000
MaxRuns == 2

\* the lists of distinct files of a folder, up to MaxHead of them
Heads ==
    UNION {{h \in [1..n -> FileNames] : \A a, b \in 1..n : a # b => h[a] # h[b]} : n \in 1..MaxHead}

Folders == [head : Heads, pad : {0, PadFiles}]

\* set_processing_state (lines 744-769): the flag, and the state of the
\* Compare Fields, Show Unmatched, Export and Clear All buttons
set_processing_state(processing) ==
    [is_processing |-> processing, buttons_enabled |-> ~processing]

InitBatch ==
    /\ cmp_in = [catalog |-> BatchCatalog]
    /\ cmp_out = NoOutcome
    /\ InitBatchIdle
    /\ InitUIIdle

\* browse_json_folder (lines 697-742): a folder is selected while no batch runs
browse_json_folder ==
    /\ pc \in {"off", "idle"}
    /\ \E files \in Folders : json_files_list' = files
    /\ json_fields' = <<>>
    /\ UNCHANGED <<cmp_in, cmp_out, pc, path, i, processed, file_stats, field_stats,
                   fields_exist_in_json, array_fields_missing_files, all_results,
                   validation_results, fields_with_special_chars, record_unmatched_info,
                   runs, uiVars>>

\* compare_fields (lines 1016-1094) and the start of the worker (lines 1105-1141,
\* 1540): the previous results are cleared and the worker's locals are set
compare_fields ==
    /\ pc \in {"off", "idle"}
    /\ ~is_processing
    /\ total_files(json_files_list) > 0
    /\ runs < MaxRuns
    /\ runs' = runs + 1
    /\ record_unmatched_info' = {}
    /\ fields_with_special_chars' = <<>>
    /\ all_results' = <<>>
    /\ processed' = 0
    /\ i' = 0
    /\ field_stats' = <<>>
    /\ fields_exist_in_json' = {}
    /\ array_fields_missing_files' = <<>>
    /\ IF total_files(json_files_list) > AggregateThreshold
       THEN path' = "aggregate" /\ file_stats' = [success |-> 0, failed |-> 0]
       ELSE path' = "collect" /\ file_stats' = NoFileStats
    /\ pc' = "loop"
    /\ is_processing' = set_processing_state(TRUE).is_processing
    /\ buttons_enabled' = set_processing_state(TRUE).buttons_enabled
    /\ UNCHANGED <<cmp_in, cmp_out, json_files_list, json_fields, validation_results,
                   ui_files, workers, after_queue, signals, last_handled>>

\* one iteration of the outer loop of the incremental path (lines 1143-1453)
ProcessBatchAggregate ==
    /\ pc = "loop" /\ path = "aggregate"
    /\ i < total_files(json_files_list)
    /\ set_worker_state(
         [aggregate_slice(worker_state, FileRuns, json_files_list, i,
                          min(i + batch_size_for(total_files(json_files_list)),
                              total_files(json_files_list)))
          EXCEPT !.json_fields =
              cache_after_aggregate_batch(@, total_files(json_files_list), i,
                                          batch_size_for(total_files(json_files_list)))])
    /\ i' = i + batch_size_for(total_files(json_files_list))
    /\ UNCHANGED <<cmp_in, cmp_out, json_files_list, pc, path, runs, uiVars>>

\* one iteration of the outer loop of the collect path (lines 1542-1770)
ProcessBatchCollect ==
    /\ pc = "loop" /\ path = "collect"
    /\ i < total_files(json_files_list)
    /\ set_worker_state(
         [collect_slice(worker_state, FileRuns, json_files_list, i,
                        min(i + batch_size_for(total_files(json_files_list)),
                            total_files(json_files_list)))
          EXCEPT !.json_fields =
              cache_after_collect_batch(@, total_files(json_files_list), i,
                                        batch_size_for(total_files(json_files_list)))])
    /\ i' = i + batch_size_for(total_files(json_files_list))
    /\ UNCHANGED <<cmp_in, cmp_out, json_files_list, pc, path, runs, uiVars>>

\* the end of the incremental path (lines 1455-1536): the logs are finalized,
\* field_stats is converted and the display is scheduled
FinishAggregate ==
    /\ pc = "loop" /\ path = "aggregate"
    /\ i >= total_files(json_files_list)
    /\ all_results' = convert_stats(field_stats, array_fields_missing_files,
                                    fields_exist_in_json)
    /\ pc' = "completed"
    /\ UNCHANGED <<cmp_in, cmp_out, json_files_list, path, i, processed, file_stats,
                   field_stats, fields_exist_in_json, array_fields_missing_files,
                   json_fields, validation_results, fields_with_special_chars,
                   record_unmatched_info, runs, uiVars>>

\* the end of the collect path (lines 1772-1795): the display is scheduled
FinishCollect ==
    /\ pc = "loop" /\ path = "collect"
    /\ i >= total_files(json_files_list)
    /\ pc' = "completed"
    /\ UNCHANGED <<cmp_in, cmp_out, json_files_list, path, i, processed, file_stats,
                   field_stats, fields_exist_in_json, array_fields_missing_files,
                   all_results, json_fields, validation_results,
                   fields_with_special_chars, record_unmatched_info, runs, uiVars>>

\* a log writer's finalize raises (lines 1466, 1470, 1784, 1788): the outer
\* handler of lines 1797-1801 schedules _processing_error
FinalizeRaises ==
    /\ pc = "loop"
    /\ i >= total_files(json_files_list)
    /\ pc' = "failed"
    /\ UNCHANGED <<cmp_in, cmp_out, json_files_list, path, i, processed, file_stats,
                   field_stats, fields_exist_in_json, array_fields_missing_files,
                   all_results, json_fields, validation_results,
                   fields_with_special_chars, record_unmatched_info, runs, uiVars>>

\* _display_results_complete (lines 1803-1933): the report is shown and the
\* processing state is reset
display_results_complete ==
    /\ pc = "completed"
    /\ pc' = "idle"
    /\ is_processing' = set_processing_state(FALSE).is_processing
    /\ buttons_enabled' = set_processing_state(FALSE).buttons_enabled
    /\ UNCHANGED <<cmp_in, cmp_out, json_files_list, path, i, processed, file_stats,
                   field_stats, fields_exist_in_json, array_fields_missing_files,
                   all_results, json_fields, validation_results,
                   fields_with_special_chars, record_unmatched_info, runs,
                   ui_files, workers, after_queue, signals, last_handled>>

\* _processing_error (lines 1935-1938): the processing state is reset
processing_error ==
    /\ pc = "failed"
    /\ pc' = "idle"
    /\ is_processing' = set_processing_state(FALSE).is_processing
    /\ buttons_enabled' = set_processing_state(FALSE).buttons_enabled
    /\ UNCHANGED <<cmp_in, cmp_out, json_files_list, path, i, processed, file_stats,
                   field_stats, fields_exist_in_json, array_fields_missing_files,
                   all_results, json_fields, validation_results,
                   fields_with_special_chars, record_unmatched_info, runs,
                   ui_files, workers, after_queue, signals, last_handled>>

NextBatch ==
    \/ browse_json_folder
    \/ compare_fields
    \/ ProcessBatchAggregate
    \/ ProcessBatchCollect
    \/ FinishAggregate
    \/ FinishCollect
    \/ FinalizeRaises
    \/ display_results_complete
    \/ processing_error

SpecBatch == InitBatch /\ [][NextBatch]_vars

-----------------------------------------------------------------------------
(* Failure isolation and aggregation in a batch                             *)

\* the file makes load_json return None or makes a comparison raise
file_fails(json_file) ==
    \/ ~FileRuns[json_file].loaded
    \/ FileRuns[json_file].compared.raised
    \/ \E k \in 1..Len(FileRuns[json_file].records) : FileRuns[json_file].records[k].raised

\* the number of files of the list that fail
failing_files(files) ==
    Cardinality({k \in 1..Len(files.head) : file_fails(files.head[k])})
    + (IF file_fails("pad") THEN files.pad ELSE 0)

\* the worker's locals as set when the worker starts (lines 1113, 1133-1140)
fresh_worker ==
    [processed |-> 0, file_stats |-> [success |-> 0, failed |-> 0], field_stats |-> <<>>,
     fields_exist_in_json |-> {}, array_fields_missing_files |-> <<>>,
     all_results |-> <<>>, json_fields |-> <<>>, validation_results |-> <<>>,
     fields_with_special_chars |-> <<>>, record_unmatched_info |-> {}]

\* the incremental aggregation of a whole file list
aggregate_all(files) ==
    aggregate_slice(fresh_worker, FileRuns, files, 0, total_files(files))

\* C3: in a batch over N files, every file whose parsing or processing fails
\* adds one to a failure counter and the remaining files are still processed,
\* on the incremental path and on the collect path alike.
C3_FailuresCounted ==
    pc = "completed" =>
        /\ processed = total_files(json_files_list)
        /\ failing_files(json_files_list) > 0 =>
              /\ file_stats # NoFileStats
              /\ file_stats.failed = failing_files(json_files_list)

\* the files of the list that are not counted as failed
without_failed(files) ==
    [head |-> SelectSeq(files.head, LAMBDA f : ~file_fails(f)),
     pad |-> IF file_fails("pad") THEN 0 ELSE files.pad]

\* C4: a file counted as failed contributes nothing to the aggregates: the
\* per-field counters, the set of fields seen in JSON and the missing-file
\* lists are those of the batch without the failed files.
C4_FailedContributeNothing ==
    (pc = "completed" /\ path = "aggregate") =>
        /\ field_stats = aggregate_all(without_failed(json_files_list)).field_stats
        /\ fields_exist_in_json
              = aggregate_all(without_failed(json_files_list)).fields_exist_in_json
        /\ array_fields_missing_files
              = aggregate_all(without_failed(json_files_list)).array_fields_missing_files

\* the counters of field_stats as a mapping, without the order of insertion
counters(stats) ==
    {<<stats[k][1], stats[k][2].matched, stats[k][2].unmatched_db, stats[k][2].unmatched_json>> :
        k \in 1..Len(stats)}

\* the file list with its files in the order given by a permutation of positions
reordered(files, order) ==
    [head |-> [k \in 1..Len(files.head) |-> files.head[order[k]]], pad |-> files.pad]

\* the file's results reach the aggregation of lines 1268-1283
reaches_aggregation(json_file) ==
    FileRuns[json_file].loaded /\ ~FileRuns[json_file].compared.raised

\* how many results of the file name the field with the status
file_count(json_file, field_name, status) ==
    IF reaches_aggregation(json_file)
    THEN Cardinality({k \in 1..Len(FileRuns[json_file].compared.results) :
            /\ FileRuns[json_file].compared.results[k].field_name = field_name
            /\ FileRuns[json_file].compared.results[k].status = status})
    ELSE 0

\* the sum of file_count over a list of files
RECURSIVE head_count(_, _, _)
head_count(head, field_name, status) ==
    IF head = <<>> THEN 0
    ELSE file_count(Head(head), field_name, status)
         + head_count(Tail(head), field_name, status)
list_count(files, field_name, status) ==
    head_count(files.head, field_name, status)
    + files.pad * file_count("pad", field_name, status)

\* the fields named by the results of the files of the list
names_of(files) ==
    UNION {{FileRuns[f].compared.results[k].field_name :
                k \in 1..Len(FileRuns[f].compared.results)} :
           f \in {g \in Range(files.head) \cup {"pad"} : reaches_aggregation(g)}}

\* per field, the number of files that matched it, missed it, or had it unlisted
summed_counters(files) ==
    {<<n, list_count(files, n, "matched"), list_count(files, n, "unmatched_db"),
       list_count(files, n, "unmatched_json")>> : n \in names_of(files)}

\* C5: the final per-field counters of the incremental aggregation do not
\* depend on the order of the files: for every reordering of the file list the
\* matched, unmatched_db and unmatched_json counts of every field are the sums
\* of the files' own counts, taken in the order of the reordered list.
C5_OrderIndependent ==
    (pc = "completed" /\ path = "aggregate") =>
        \A order \in Permutations(1..Len(json_files_list.head)) :
            counters(field_stats) = summed_counters(reordered(json_files_list, order))

\* a batch of two files that report different statuses for the same field
C5_Witness ==
    /\ pc = "completed" /\ path = "aggregate"
    /\ Len(json_files_list.head) >= 2
    /\ \E k \in 1..Len(field_stats) :
          field_stats[k][2].matched > 0 /\ field_stats[k][2].unmatched_db > 0

\* C9: when a new comparison batch starts, the comparator's validation_results
\* holds no finding left over from an earlier batch or an earlier file.
C9_FreshAccumulator ==
    (pc = "loop" /\ i = 0) => validation_results = <<>>

\* C10: an array-owned catalog field that matched in some files of the batch
\* and was missing in others has an unmatched_db entry in the final report
\* that lists the files in which it was missing.
C10_MissingFilesReported ==
    (pc = "completed" /\ path = "aggregate") =>
        \A k \in 1..Len(field_stats) :
            (/\ field_stats[k][1] \in array_field_names
             /\ field_stats[k][2].matched > 0
             /\ field_stats[k][2].unmatched_db > 0)
            => \E n \in 1..Len(all_results) :
                  /\ all_results[n].field_name = field_stats[k][1]
                  /\ all_results[n].status = "unmatched_db"
                  /\ all_results[n].match_type.text = "not_found in"
                  /\ all_results[n].match_type.files
                        = files_str(dict_get(array_fields_missing_files,
                                             field_stats[k][1], <<>>))


-----------------------------------------------------------------------------
(* The interactive thread and its background workers (SpecUI).              *)
(* The buttons run on the Tk main loop; each batch runs on a daemon thread  *)
(* that hands its results back with root.after(0, ...).  Here a batch is    *)
(* only its length: what it computes is the subject of SpecBatch.           *)

MaxFiles == 2
MaxWorkers == 3

\* the branch _display_results_complete takes (lines 1805-1933)
display_path(results, raises) ==
    IF raises THEN "exception"
    ELSE IF results = "none" THEN "empty"
    ELSE IF results = "many" THEN "aggregated"
    ELSE "individual"

\* a faulty handler, kept to test the properties of the display: the branch
\* that catches an exception leaves the processing state as it was set
state_after_display_kept(display) ==
    IF display = "exception" THEN set_processing_state(TRUE)
    ELSE set_processing_state(FALSE)

\* the processing state _display_results_complete leaves behind on each
\* branch (lines 1813, 1917, 1932; 1949, 2068, 2086, 2098 for the aggregated view)
state_after_display(display) ==
    CASE display = "empty"      -> set_processing_state(FALSE)
      [] display = "aggregated" -> set_processing_state(FALSE)
      [] display = "individual" -> set_processing_state(FALSE)
      [] display = "exception"  -> set_processing_state(FALSE)

\* a thread started by compare_fields (1089-1094) or validate_json_files (823-828)
new_worker(kind, total) ==
    [kind |-> kind, total |-> total, pos |-> 0, alive |-> TRUE]

NoSignal == [sent |-> 0, handled |-> 0]

\* root.after(0, callback, ...): the callback joins the queue of the main loop
callback(name, w, results) == [name |-> name, worker |-> w, results |-> results]

running(w) == w \in DOMAIN workers /\ workers[w].alive

handled(name, w, display) == [name |-> name, worker |-> w, display |-> display]

InitUI ==
    /\ cmp_in = [catalog |-> BatchCatalog]
    /\ cmp_out = NoOutcome
    /\ InitBatchIdle
    /\ InitUIIdle


\* browse_json_folder (lines 697-742); the Browse button is never disabled
BrowseFolder ==
    /\ \E n \in 1..MaxFiles : ui_files' = n
    /\ last_handled' = handled("browse_json_folder", 0, "none")
    /\ UNCHANGED <<is_processing, buttons_enabled, workers, after_queue, signals>>
    /\ UNCHANGED <<cmpVars, batchVars>>

\* compare_fields (lines 1016-1101): the button is disabled while
\* set_processing_state(True) is in force, and the handler returns at once
\* when is_processing is set or no folder is loaded
CompareFields ==
    /\ buttons_enabled
    /\ ~is_processing
    /\ ui_files > 0
    /\ Len(workers) < MaxWorkers
    /\ is_processing' = set_processing_state(TRUE).is_processing
    /\ buttons_enabled' = set_processing_state(TRUE).buttons_enabled
    /\ workers' = Append(workers, new_worker("compare", ui_files))
    /\ signals' = Append(signals, NoSignal)
    /\ last_handled' = handled("compare_fields", Len(workers) + 1, "none")
    /\ UNCHANGED <<ui_files, after_queue>>
    /\ UNCHANGED <<cmpVars, batchVars>>

\* validate_json_files (lines 794-833): the Validate JSON button is never
\* disabled and the handler does not look at is_processing
ValidateJsonFiles ==
    /\ ui_files > 0
    /\ Len(workers) < MaxWorkers
    /\ is_processing' = set_processing_state(TRUE).is_processing
    /\ buttons_enabled' = set_processing_state(TRUE).buttons_enabled
    /\ workers' = Append(workers, new_worker("validate", ui_files))
    /\ signals' = Append(signals, NoSignal)
    /\ last_handled' = handled("validate_json_files", Len(workers) + 1, "none")
    /\ UNCHANGED <<ui_files, after_queue>>
    /\ UNCHANGED <<cmpVars, batchVars>>

\* clear_all (lines 2762-2783): the file list is dropped and the flag is
\* reset directly, the buttons are left as they are
ClearAll ==
    /\ buttons_enabled
    /\ ui_files' = 0
    /\ is_processing' = FALSE
    /\ last_handled' = handled("clear_all", 0, "none")
    /\ UNCHANGED <<buttons_enabled, workers, after_queue, signals>>
    /\ UNCHANGED <<cmpVars, batchVars>>

\* _process_comparison_batch, one file of the list it was started with
\* (lines 1143-1453 and 1541-1779); nothing is consulted between two files
ComparisonWorkerFile(w) ==
    /\ running(w) /\ workers[w].kind = "compare"
    /\ workers[w].pos < workers[w].total
    /\ workers' = [workers EXCEPT ![w].pos = @ + 1]
    /\ UNCHANGED <<is_processing, buttons_enabled, ui_files, after_queue,
                   signals, last_handled>>
    /\ UNCHANGED <<cmpVars, batchVars>>

\* the end of _process_comparison_batch (lines 1536 and 1795): the results
\* are handed to the main loop and the thread ends
ComparisonWorkerDone(w) ==
    /\ running(w) /\ workers[w].kind = "compare"
    /\ workers[w].pos = workers[w].total
    /\ \E results \in {"none", "few", "many"} :
          after_queue' = Append(after_queue,
                                callback("_display_results_complete", w, results))
    /\ workers' = [workers EXCEPT ![w].alive = FALSE]
    /\ signals' = [signals EXCEPT ![w].sent = @ + 1]
    /\ UNCHANGED <<is_processing, buttons_enabled, ui_files, last_handled>>
    /\ UNCHANGED <<cmpVars, batchVars>>

\* an exception escapes the body of _process_comparison_batch, as when a log
\* writer's finalize() raises (lines 1797-1801)
ComparisonWorkerRaises(w) ==
    /\ running(w) /\ workers[w].kind = "compare"
    /\ workers[w].pos = workers[w].total
    /\ after_queue' = Append(after_queue, callback("_processing_error", w, "none"))
    /\ workers' = [workers EXCEPT ![w].alive = FALSE]
    /\ signals' = [signals EXCEPT ![w].sent = @ + 1]
    /\ UNCHANGED <<is_processing, buttons_enabled, ui_files, last_handled>>
    /\ UNCHANGED <<cmpVars, batchVars>>

\* _process_json_validation, one file (lines 848-874)
ValidationWorkerFile(w) ==
    /\ running(w) /\ workers[w].kind = "validate"
    /\ workers[w].pos < workers[w].total
    /\ workers' = [workers EXCEPT ![w].pos = @ + 1]
    /\ UNCHANGED <<is_processing, buttons_enabled, ui_files, after_queue,
                   signals, last_handled>>
    /\ UNCHANGED <<cmpVars, batchVars>>

\* the end of _process_json_validation (lines 887-893)
ValidationWorkerDone(w) ==
    /\ running(w) /\ workers[w].kind = "validate"
    /\ workers[w].pos = workers[w].total
    /\ after_queue' = after_queue
                      \o <<callback("_show_validation_results", w, "none"),
                           callback("set_processing_state", w, "none")>>
    /\ workers' = [workers EXCEPT ![w].alive = FALSE]
    /\ UNCHANGED <<is_processing, buttons_enabled, ui_files, signals, last_handled>>
    /\ UNCHANGED <<cmpVars, batchVars>>

\* the report cannot be written (lines 895-899)
ValidationWorkerRaises(w) ==
    /\ running(w) /\ workers[w].kind = "validate"
    /\ workers[w].pos = workers[w].total
    /\ after_queue' = Append(after_queue, callback("set_processing_state", w, "none"))
    /\ workers' = [workers EXCEPT ![w].alive = FALSE]
    /\ UNCHANGED <<is_processing, buttons_enabled, ui_files, signals, last_handled>>
    /\ UNCHANGED <<cmpVars, batchVars>>

\* the main loop runs _display_results_complete (lines 1803-1933)
DisplayResultsComplete ==
    /\ after_queue # <<>>
    /\ Head(after_queue).name = "_display_results_complete"
    /\ \E raises \in BOOLEAN :
          /\ is_processing' = state_after_display(
                 display_path(Head(after_queue).results, raises)).is_processing
          /\ buttons_enabled' = state_after_display(
                 display_path(Head(after_queue).results, raises)).buttons_enabled
          /\ last_handled' = handled("_display_results_complete",
                                     Head(after_queue).worker,
                                     display_path(Head(after_queue).results, raises))
    /\ signals' = [signals EXCEPT ![Head(after_queue).worker].handled = @ + 1]
    /\ after_queue' = Tail(after_queue)
    /\ UNCHANGED <<ui_files, workers>>
    /\ UNCHANGED <<cmpVars, batchVars>>

\* the main loop runs _processing_error (lines 1935-1938)
ProcessingError ==
    /\ after_queue # <<>>
    /\ Head(after_queue).name = "_processing_error"
    /\ is_processing' = set_processing_state(FALSE).is_processing
    /\ buttons_enabled' = set_processing_state(FALSE).buttons_enabled
    /\ last_handled' = handled("_processing_error", Head(after_queue).worker, "none")
    /\ signals' = [signals EXCEPT ![Head(after_queue).worker].handled = @ + 1]
    /\ after_queue' = Tail(after_queue)
    /\ UNCHANGED <<ui_files, workers>>
    /\ UNCHANGED <<cmpVars, batchVars>>

\* the main loop runs the set_processing_state(False) a validation worker queued
SetProcessingState ==
    /\ after_queue # <<>>
    /\ Head(after_queue).name = "set_processing_state"
    /\ is_processing' = set_processing_state(FALSE).is_processing
    /\ buttons_enabled' = set_processing_state(FALSE).buttons_enabled
    /\ last_handled' = handled("set_processing_state", Head(after_queue).worker, "none")
    /\ after_queue' = Tail(after_queue)
    /\ UNCHANGED <<ui_files, workers, signals>>
    /\ UNCHANGED <<cmpVars, batchVars>>

\* the main loop runs _show_validation_results: a report window, no state
ShowValidationResults ==
    /\ after_queue # <<>>
    /\ Head(after_queue).name = "_show_validation_results"
    /\ last_handled' = handled("_show_validation_results", Head(after_queue).worker, "none")
    /\ after_queue' = Tail(after_queue)
    /\ UNCHANGED <<is_processing, buttons_enabled, ui_files, workers, signals>>
    /\ UNCHANGED <<cmpVars, batchVars>>

WorkerIds == 1..MaxWorkers

WorkerStep(w) ==
    \/ ComparisonWorkerFile(w)
    \/ ComparisonWorkerDone(w)
    \/ ComparisonWorkerRaises(w)
    \/ ValidationWorkerFile(w)
    \/ ValidationWorkerDone(w)
    \/ ValidationWorkerRaises(w)

MainLoopCallback ==
    \/ DisplayResultsComplete
    \/ ProcessingError
    \/ SetProcessingState
    \/ ShowValidationResults

NextUI ==
    \/ BrowseFolder
    \/ CompareFields
    \/ ValidateJsonFiles
    \/ ClearAll
    \/ \E w \in WorkerIds : WorkerStep(w)
    \/ MainLoopCallback

SpecUI == InitUI /\ [][NextUI]_vars

\* the threads are scheduled and the Tk main loop keeps serving its queue
SpecUILive ==
    /\ SpecUI
    /\ \A w \in WorkerIds : WF_vars(WorkerStep(w))
    /\ WF_vars(MainLoopCallback)


-----------------------------------------------------------------------------
(* Claims about the interactive thread and its workers *)

\* C6: while a comparison batch runs, the worker checks a cancellation signal
\* between files: once the batch has been called off (Clear All has reset
\* is_processing and dropped the file list) the worker processes no further file.
C6_StopsWhenCalledOff ==
    [][\A w \in DOMAIN workers :
          (/\ workers[w].kind = "compare"
           /\ workers[w].alive
           /\ last_handled.name = "clear_all"
           /\ ~is_processing)
          => workers'[w].pos = workers[w].pos]_vars

running_workers(kind) == {w \in DOMAIN workers : workers[w].alive /\ workers[w].kind = kind}

\* C7: at most one background worker runs at any time, is_processing is true
\* while any worker runs, and no two comparison batches run together, whatever
\* the order of Validate JSON, Compare Fields and Clear All.
C7_OneWorkerAtATime ==
    /\ Cardinality(running_workers("compare") \cup running_workers("validate")) <= 1
    /\ (running_workers("compare") \cup running_workers("validate")) # {} => is_processing
    /\ Cardinality(running_workers("compare")) <= 1

FinalSignals == {"_display_results_complete", "_processing_error"}

comparison_started(w) == w \in DOMAIN workers /\ workers[w].kind = "compare"

final_signal_handled(w) ==
    w \in DOMAIN signals /\ signals[w].sent = 1 /\ signals[w].handled = 1

\* C8: every started comparison batch delivers exactly one final signal
\* (_display_results_complete or _processing_error), the main loop handles it,
\* and once it is handled is_processing is false, on every display path and
\* on the worker's exception path.
C8_OneFinalSignal ==
    /\ [](\A w \in DOMAIN workers :
            /\ signals[w].sent <= 1
            /\ signals[w].handled <= signals[w].sent
            /\ (workers[w].kind = "compare" /\ ~workers[w].alive) => signals[w].sent = 1)
    /\ \A w \in WorkerIds :
          comparison_started(w) ~> final_signal_handled(w)
    /\ [](last_handled.name \in FinalSignals => ~is_processing)

\* a comparison batch whose display raised has been handled: the flag is down
C8_Witness ==
    /\ last_handled.name = "_display_results_complete"
    /\ last_handled.display = "exception"
    /\ signals[last_handled.worker] = [sent |-> 1, handled |-> 1]
    /\ ~is_processing


-----------------------------------------------------------------------------
(* One call of FieldComparator.compare on two lists of field names          *)
(* (SpecMatch): the lists are handed over as they are, with no category,    *)
(* null-category or array mapping and no document.                          *)

MaxFields == 2

m_Clearence == <<"C","l","e","a","r","e","n","c","e">>
m_Clearance == <<"C","l","e","a","r","a","n","c","e">>
m_Dose == <<"D","o","s","e">>
m_dose == <<"d","o","s","e">>
m_Dos == <<"D","o","s">>
m_Dosea == <<"D","o","s","e","a">>
m_Doseb == <<"D","o","s","e","b">>
m_Dosec == <<"D","o","s","e","c">>
m_Dosed == <<"D","o","s","e","d">>

CatalogNames == {m_Clearence, m_Dose, m_dose, m_Dos, m_Dosea, m_Doseb}
JsonNames == {m_Clearance, m_Dose, m_dose, m_Dosec, m_Dosed}

lists_of(S, n) == UNION {[1..k -> S] : k \in 0..n}

MatchConfigs ==
    { DefaultConfig,
      [case_sensitive |-> FALSE, fuzzy_match |-> TRUE, similarity_threshold |-> 95],
      [case_sensitive |-> FALSE, fuzzy_match |-> FALSE, similarity_threshold |-> 80],
      [case_sensitive |-> TRUE, fuzzy_match |-> TRUE, similarity_threshold |-> 80] }

InitMatch ==
    /\ cmp_in \in [db_fields : lists_of(CatalogNames, MaxFields),
                   json_fields : lists_of(JsonNames, MaxFields),
                   config : MatchConfigs]
    /\ cmp_out = NoOutcome
    /\ InitBatchIdle
    /\ InitUIIdle

\* FieldComparator.compare(db_fields, json_fields) (lines 60-225)
CompareLists ==
    /\ cmp_out = NoOutcome
    /\ cmp_out' = [call |-> "lists",
                   db_fields_normalized |->
                       normalize_fields(cmp_in.db_fields, cmp_in.config.case_sensitive),
                   json_fields_normalized |->
                       normalize_fields(cmp_in.json_fields, cmp_in.config.case_sensitive),
                   outcome |-> compare(cmp_in.db_fields, cmp_in.json_fields, <<>>, <<>>,
                                       <<>>, JNull, "file", <<>>, cmp_in.config)]
    /\ UNCHANGED <<cmp_in, batchVars, uiVars>>

NextMatch == CompareLists

SpecMatch == InitMatch /\ [][NextMatch]_vars


-----------------------------------------------------------------------------
(* Claims about the matching of two field lists *)

lists_compared == cmp_out.call = "lists"

pairs_of(key) ==
    {k \in 1..Len(cmp_out.outcome.matched_pairs) : cmp_out.outcome.matched_pairs[k].db = key}

fuzzy_reports_of(key) ==
    {k \in 1..Len(cmp_out.outcome.results) :
        /\ cmp_out.outcome.results[k].status = "matched"
        /\ cmp_out.outcome.results[k].match_type = "fuzzy"
        /\ normalize_field(cmp_out.outcome.results[k].db_field,
                           cmp_in.config.case_sensitive) = key}

\* C11: a catalog field whose normalized key is also the normalized key of a
\* JSON field is bound by the exact pass and is never reported with a fuzzy
\* match type, also when the catalog lists the key more than once.
C11_ExactBeforeFuzzy ==
    lists_compared =>
        \A d \in 1..Len(cmp_out.db_fields_normalized) :
            cmp_out.db_fields_normalized[d] \in Range(cmp_out.json_fields_normalized)
            => /\ pairs_of(cmp_out.db_fields_normalized[d]) # {}
               /\ \A k \in pairs_of(cmp_out.db_fields_normalized[d]) :
                     /\ cmp_out.outcome.matched_pairs[k].kind = "exact"
                     /\ cmp_out.outcome.matched_pairs[k].json = cmp_out.db_fields_normalized[d]
               /\ fuzzy_reports_of(cmp_out.db_fields_normalized[d]) = {}

\* the catalog lists the key 'dose' twice, the document has it and a second
\* field close to it, and fuzzy matching is on
C11_Witness ==
    /\ lists_compared
    /\ cmp_in.db_fields = <<m_Dose, m_dose>>
    /\ cmp_in.json_fields = <<m_Dosec, m_dose>>
    /\ cmp_in.config = DefaultConfig
    /\ Len(cmp_out.outcome.matched_pairs) = 1
    /\ cmp_out.outcome.matched_pairs[1].kind = "exact"


\* C12: in the matched pairs of one comparison every normalized JSON field is
\* bound to at most one catalog field: a field the exact pass bound, or an
\* earlier fuzzy match bound, is no candidate for a later catalog field.
C12_JsonFieldBoundOnce ==
    lists_compared =>
        \A k, n \in 1..Len(cmp_out.outcome.matched_pairs) :
            cmp_out.outcome.matched_pairs[k].json = cmp_out.outcome.matched_pairs[n].json
            => k = n

\* 'dose' is bound exactly; it is the only and best candidate of 'Dosea',
\* which stays unmatched
C12_Witness ==
    /\ lists_compared
    /\ cmp_in.db_fields = <<m_Dose, m_Dosea>>
    /\ cmp_in.json_fields = <<m_dose>>
    /\ cmp_in.config = DefaultConfig
    /\ Len(cmp_out.outcome.matched_pairs) = 1
    /\ \E k \in 1..Len(cmp_out.outcome.results) :
          /\ cmp_out.outcome.results[k].status = "unmatched_db"
          /\ cmp_out.outcome.results[k].db_field = m_Dosea


\* the first position of a normalized key in the catalog list
first_index(key) ==
    CHOOSE d \in 1..Len(cmp_out.db_fields_normalized) :
        /\ cmp_out.db_fields_normalized[d] = key
        /\ \A e \in 1..(d - 1) : cmp_out.db_fields_normalized[e] # key

\* the JSON fields bound when the fuzzy pass reaches position d of the catalog
\* list: those of the exact pass and those of the catalog fields before d
used_before(d) ==
    {cmp_out.outcome.matched_pairs[k].json : k \in
        {n \in 1..Len(cmp_out.outcome.matched_pairs) :
            \/ cmp_out.outcome.matched_pairs[n].kind = "exact"
            \/ first_index(cmp_out.outcome.matched_pairs[n].db) < d}}

\* the best candidate of the catalog field at position d at its turn
best_at(d) ==
    find_best_fuzzy_match(cmp_out.db_fields_normalized[d],
        SelectSeq(cmp_out.json_fields_normalized, LAMBDA f : f \notin used_before(d)))

accepted(best) ==
    best.found /\ ratio_at_least(best.similarity, cmp_in.config.similarity_threshold)

\* the positions the fuzzy pass tries: first occurrences of the keys the
\* exact pass left unmatched
fuzzy_turns ==
    {d \in 1..Len(cmp_out.db_fields_normalized) :
        /\ cmp_out.db_fields_normalized[d] \notin Range(cmp_out.json_fields_normalized)
        /\ first_index(cmp_out.db_fields_normalized[d]) = d}

bound_at(d, json_field) ==
    \E k \in 1..Len(cmp_out.outcome.matched_pairs) :
        /\ cmp_out.outcome.matched_pairs[k].db = cmp_out.db_fields_normalized[d]
        /\ cmp_out.outcome.matched_pairs[k].json = json_field
        /\ cmp_out.outcome.matched_pairs[k].kind = "fuzzy"

reported_unmatched_db(key) ==
    \E k \in 1..Len(cmp_out.outcome.results) :
        /\ cmp_out.outcome.results[k].status = "unmatched_db"
        /\ normalize_field(cmp_out.outcome.results[k].db_field,
                           cmp_in.config.case_sensitive) = key

reported_unmatched_json(key) ==
    \E k \in 1..Len(cmp_out.outcome.results) :
        /\ cmp_out.outcome.results[k].status = "unmatched_json"
        /\ normalize_field(cmp_out.outcome.results[k].json_field,
                           cmp_in.config.case_sensitive) = key

bound_later(d, json_field) ==
    \E k \in 1..Len(cmp_out.outcome.matched_pairs) :
        /\ cmp_out.outcome.matched_pairs[k].json = json_field
        /\ first_index(cmp_out.outcome.matched_pairs[k].db) > d

\* no unused JSON field scores higher against the catalog field at position d
highest_scoring(d, best) ==
    \A c \in 1..Len(cmp_out.json_fields_normalized) :
        cmp_out.json_fields_normalized[c] \notin used_before(d)
        => ~ratio_greater(calculate_similarity(cmp_out.db_fields_normalized[d],
                                               cmp_out.json_fields_normalized[c]),
                          best.similarity)

best_after_exact(d) ==
    find_best_fuzzy_match(cmp_out.db_fields_normalized[d],
        SelectSeq(cmp_out.json_fields_normalized,
                  LAMBDA f : f \notin Range(cmp_out.db_fields_normalized)))

bound_before(d, json_field) ==
    \E k \in 1..Len(cmp_out.outcome.matched_pairs) :
        /\ cmp_out.outcome.matched_pairs[k].json = json_field
        /\ first_index(cmp_out.outcome.matched_pairs[k].db) < d

same_score(x, y) == x[1] * y[2] = y[1] * x[2]

first_json_index(key) ==
    CHOOSE c \in 1..Len(cmp_out.json_fields_normalized) :
        /\ cmp_out.json_fields_normalized[c] = key
        /\ \A e \in 1..(c - 1) : cmp_out.json_fields_normalized[e] # key

\* among the unused candidates that score as high as the bound one, the bound
\* one comes first in the JSON list
first_among_equals(d, best) ==
    \A c \in 1..Len(cmp_out.json_fields_normalized) :
        (/\ cmp_out.json_fields_normalized[c] \notin used_before(d)
         /\ same_score(calculate_similarity(cmp_out.db_fields_normalized[d],
                                            cmp_out.json_fields_normalized[c]),
                       best.similarity))
        => first_json_index(best.match) <= c

\* C14: the fuzzy pass is greedy in catalog order: of two catalog fields whose
\* best candidate above the threshold is the same JSON field, the earlier one
\* is bound to it (unless a still earlier catalog field holds it) and the
\* later one is unbound or bound to another JSON field; among candidates of
\* equal similarity the first of the JSON list is bound.
C14_GreedyInCatalogOrder ==
    (lists_compared /\ cmp_in.config.fuzzy_match) =>
        /\ \A d, e \in fuzzy_turns :
              (/\ d < e
               /\ accepted(best_after_exact(d)) /\ accepted(best_after_exact(e))
               /\ best_after_exact(d).match = best_after_exact(e).match)
              => /\ \/ bound_at(d, best_after_exact(d).match)
                    \/ bound_before(d, best_after_exact(d).match)
                 /\ ~bound_at(e, best_after_exact(d).match)
        /\ \A d \in fuzzy_turns :
              \A k \in pairs_of(cmp_out.db_fields_normalized[d]) :
                 /\ highest_scoring(d, [similarity |-> cmp_out.outcome.matched_pairs[k].score])
                 /\ first_among_equals(d, [match |-> cmp_out.outcome.matched_pairs[k].json,
                                           similarity |-> cmp_out.outcome.matched_pairs[k].score])

\* 'Dosea' and 'Doseb' both score 0.8 against 'Dosec' and 'Dosed': the first
\* takes 'Dosec', the second is left with 'Dosed'
C14_Witness ==
    /\ lists_compared
    /\ cmp_in.db_fields = <<m_Dosea, m_Doseb>>
    /\ cmp_in.json_fields = <<m_Dosec, m_Dosed>>
    /\ cmp_in.config = DefaultConfig
    /\ best_after_exact(1).match = best_after_exact(2).match
    /\ bound_at(1, cmp_out.json_fields_normalized[1])
    /\ bound_at(2, cmp_out.json_fields_normalized[2])


-----------------------------------------------------------------------------
(* One call of FieldComparator._normalize_fields on one name, and a second  *)
(* call on its result (SpecNormalize)                                       *)

MaxNameLen == 3

NameChars == {"A", "b", ".", " ", "_", "-"}

Names == lists_of(NameChars, MaxNameLen)

InitNormalize ==
    /\ cmp_in \in [name : Names, case_sensitive : BOOLEAN]
    /\ cmp_out = NoOutcome
    /\ InitBatchIdle
    /\ InitUIIdle

\* _normalize_fields([name]) (lines 562-599)
NormalizeName ==
    /\ cmp_out = NoOutcome
    /\ cmp_out' = [call |-> "normalize",
                   key |-> normalize_fields(<<cmp_in.name>>, cmp_in.case_sensitive)[1]]
    /\ UNCHANGED <<cmp_in, batchVars, uiVars>>

\* _normalize_fields on the key a first call returned
NormalizeKey ==
    /\ cmp_out.call = "normalize"
    /\ cmp_out' = [call |-> "normalize again", key |-> cmp_out.key,
                   again |-> normalize_fields(<<cmp_out.key>>, cmp_in.case_sensitive)[1]]
    /\ UNCHANGED <<cmp_in, batchVars, uiVars>>

NextNormalize == NormalizeName \/ NormalizeKey

SpecNormalize == InitNormalize /\ [][NextNormalize]_vars

\* C15: normalizing a normalized key returns the same key, for every name and
\* both case settings, also for names with dots.
C15_NormalizeIdempotent ==
    cmp_out.call = "normalize again" => cmp_out.again = cmp_out.key

\* a name with a dot, a separator and an upper-case letter, case folded
C15_Witness ==
    /\ cmp_out.call = "normalize again"
    /\ cmp_in.name = <<".", "_", "A">>
    /\ ~cmp_in.case_sensitive
    /\ cmp_out.key = <<"a">>
    /\ cmp_out.again = <<"a">>


-----------------------------------------------------------------------------
(* Claims about what the worker of a large batch keeps *)

\* C16: while a batch of more than 1,000 files runs, the worker keeps no
\* per-file or per-record match detail: no list of results and no list of the
\* unmatched fields of a file or of a record; only the per-field counters and
\* the missing-file lists of array-owned fields grow.
C16_NoPerRecordDetail ==
    (path = "aggregate" /\ pc \in {"loop", "completed"}) =>
        /\ record_unmatched_info = {}
        /\ pc = "loop" => all_results = <<>>


-----------------------------------------------------------------------------
(* SpecCache: the cache of extracted field lists over the runs of a very    *)
(* large batch; the files of the folder are distinct paths 0 .. total - 1   *)

VeryLargeThreshold == 50000
MaxExtra == 50
SweepInterval == 100

CacheTotals == {VeryLargeThreshold + 1, VeryLargeThreshold + MaxExtra}

\* lines 1150-1161: load_json returns None for an unreadable file and the
\* loop continues; any other file is looked up in, or added to, the cache
cache_after_file(cache, json_file, readable) ==
    IF readable THEN cache_fields(cache, json_file, <<"Dose">>) ELSE cache

\* the files load_json cannot read: none, or every second one
readable_file(json_file, unreadable_every) ==
    unreadable_every = 0 \/ json_file % unreadable_every # 0

InitCache ==
    /\ cmp_in \in [total : CacheTotals, unreadable_every : {0, 2}]
    /\ cmp_out = NoOutcome
    /\ InitBatchIdle
    /\ InitUIIdle

\* compare_fields (lines 1016-1094) starts the first worker on the folder;
\* self.json_fields is the empty dict of line 409
CacheFirstRun ==
    /\ cmp_out = NoOutcome
    /\ cmp_out' = [call |-> "cache", run |-> 1, i |-> 0, held |-> 0, json_fields |-> <<>>]
    /\ UNCHANGED <<cmp_in, batchVars, uiVars>>

\* one iteration of the outer loop (lines 1143-1453) with batch_size 1: the
\* file of index i is cached (held entries then), and the cache is swept
CacheIteration ==
    /\ cmp_out.call = "cache"
    /\ cmp_out.i < cmp_in.total
    /\ batch_size_for(cmp_in.total) = 1
    /\ cmp_out' = [cmp_out EXCEPT
          !.held = Len(cache_after_file(cmp_out.json_fields, cmp_out.i,
                                        readable_file(cmp_out.i, cmp_in.unreadable_every))),
          !.json_fields = cache_after_aggregate_batch(
                              cache_after_file(cmp_out.json_fields, cmp_out.i,
                                               readable_file(cmp_out.i, cmp_in.unreadable_every)),
                              cmp_in.total, cmp_out.i, batch_size_for(cmp_in.total)),
          !.i = cmp_out.i + batch_size_for(cmp_in.total)]
    /\ UNCHANGED <<cmp_in, batchVars, uiVars>>

\* compare_fields is pressed again on the same folder: lines 1034-1043 clear
\* the results of the previous run and leave self.json_fields as it is
CacheNextRun ==
    /\ cmp_out.call = "cache"
    /\ cmp_out.i >= cmp_in.total
    /\ cmp_out.run < MaxRuns
    /\ cmp_out' = [cmp_out EXCEPT !.run = cmp_out.run + 1, !.i = 0, !.held = Len(cmp_out.json_fields)]
    /\ UNCHANGED <<cmp_in, batchVars, uiVars>>

NextCache ==
    \/ CacheFirstRun
    \/ CacheIteration
    \/ CacheNextRun

SpecCache == InitCache /\ [][NextCache]_vars

\* the iteration of index i - 1 has just ended and its index is a positive
\* multiple of 100
swept_now == cmp_out.i > 1 /\ (cmp_out.i - 1) % SweepInterval = 0

-----------------------------------------------------------------------------
(* SpecLoader: the loading operations of FieldLoader on one loader, and the *)
(* application's Load Annexure Fields on what the loader holds.  A dict is  *)
(* a list of <<key, value>> with distinct keys, in insertion order.         *)

MaxOps == 3

\* d[key] = value
dict_set(d, key, value) ==
    IF dict_has(d, key)
    THEN [k \in 1..Len(d) |-> IF d[k][1] = key THEN <<key, value>> ELSE d[k]]
    ELSE Append(d, <<key, value>>)

\* list(dict.fromkeys(fields)): the first occurrence of each name, in order
RECURSIVE from_keys(_)
from_keys(fields) ==
    IF fields = <<>> THEN <<>>
    ELSE IF fields[Len(fields)] \in Range(SubSeq(fields, 1, Len(fields) - 1))
    THEN from_keys(SubSeq(fields, 1, Len(fields) - 1))
    ELSE Append(from_keys(SubSeq(fields, 1, Len(fields) - 1)), fields[Len(fields)])

\* FieldLoader.add_database
add_database(databases, database_name) ==
    IF dict_has(databases, database_name) THEN databases
    ELSE dict_set(databases, database_name, TableDatabase(<<>>))

\* the tables of a database of the loader
tables_of(databases, database_name) ==
    dict_get(databases, database_name, TableDatabase(<<>>)).tables

\* FieldLoader.add_table: the list is stored as it is handed over
add_table(databases, database_name, table_name, fields) ==
    dict_set(add_database(databases, database_name), database_name,
             TableDatabase(dict_set(tables_of(add_database(databases, database_name), database_name),
                                    table_name, fields)))

\* FieldLoader.add_fields: the table's list is extended, then reduced to the
\* first occurrence of each name
add_fields(databases, database_name, table_name, fields) ==
    dict_set(add_database(databases, database_name), database_name,
             TableDatabase(dict_set(tables_of(add_database(databases, database_name), database_name),
                                    table_name,
                                    from_keys(dict_get(tables_of(databases, database_name),
                                                       table_name, <<>>) \o fields))))

\* FieldLoader.load_from_dict: self.databases = data.copy()
load_from_dict(data) == [k \in 1..Len(data) |-> data[k]]

\* what a configuration module defines; NoAttr: the name is not defined
NoAttr == [t |-> "no attribute", data |-> <<>>]
Attr(data) == [t |-> "attribute", data |-> data]

\* FieldLoader.load_from_config_file: raises before anything is assigned, or
\* hands the first of get_databases(), DATABASES, databases to load_from_dict
load_from_config_file(databases, config_file) ==
    IF ~config_file.exists
    THEN [raised |-> "FileNotFoundError", databases |-> databases]
    ELSE IF config_file.get_databases # NoAttr
    THEN [raised |-> "none", databases |-> load_from_dict(config_file.get_databases.data)]
    ELSE IF config_file.DATABASES # NoAttr
    THEN [raised |-> "none", databases |-> load_from_dict(config_file.DATABASES.data)]
    ELSE IF config_file.databases # NoAttr
    THEN [raised |-> "none", databases |-> load_from_dict(config_file.databases.data)]
    ELSE [raised |-> "ValueError", databases |-> databases]

\* the names and lists the operations are called with
DatabaseNames == {"A", "B"}
TableNames == {n_bio, n_PK}
FieldLists == lists_of({n_Dose, n_Unit}, MaxFields)

\* the dictionaries handed to load_from_dict or defined by a configuration
\* file: nothing, a table that lists a name twice, and two databases of
\* which the second has no table
DictEmpty == <<>>
DictRepeated == << <<"A", TableDatabase(<< <<n_bio, <<n_Dose, n_Dose>>>> >>)>> >>
DictTwo == << <<"A", CatalogTables>>, <<"B", TableDatabase(<<>>)>> >>
Dicts == {DictEmpty, DictRepeated, DictTwo}

ConfigFiles ==
    {[exists |-> FALSE, get_databases |-> NoAttr, DATABASES |-> NoAttr, databases |-> NoAttr],
     [exists |-> TRUE, get_databases |-> NoAttr, DATABASES |-> NoAttr, databases |-> NoAttr],
     [exists |-> TRUE, get_databases |-> Attr(DictRepeated), DATABASES |-> NoAttr, databases |-> NoAttr],
     [exists |-> TRUE, get_databases |-> NoAttr, DATABASES |-> Attr(DictTwo), databases |-> Attr(DictRepeated)],
     [exists |-> TRUE, get_databases |-> NoAttr, DATABASES |-> NoAttr, databases |-> Attr(DictTwo)]}

\* FieldLoader.__init__ (line 19) and FieldMapperApp.__init__ (line 408)
InitLoader ==
    /\ cmp_in = [call |-> "loader"]
    /\ cmp_out = [call |-> "init", status |-> "none", ops |-> 0,
                  databases |-> <<>>, all_db_fields |-> <<>>,
                  databases_before |-> <<>>, all_db_fields_before |-> <<>>]
    /\ InitBatchIdle
    /\ InitUIIdle

\* an operation has ended with this state of the loader and the application
loader_step(call, status, databases, all_db_fields) ==
    /\ cmp_out.ops < MaxOps
    /\ cmp_out' = [call |-> call, status |-> status, ops |-> cmp_out.ops + 1,
                   databases |-> databases, all_db_fields |-> all_db_fields,
                   databases_before |-> cmp_out.databases,
                   all_db_fields_before |-> cmp_out.all_db_fields]
    /\ UNCHANGED <<cmp_in, batchVars, uiVars>>

AddTable ==
    \E database_name \in DatabaseNames, table_name \in TableNames, fields \in FieldLists :
        loader_step("add_table", "loaded",
                    add_table(cmp_out.databases, database_name, table_name, fields),
                    cmp_out.all_db_fields)

AddFields ==
    \E database_name \in DatabaseNames, table_name \in TableNames, fields \in FieldLists :
        loader_step("add_fields", "loaded",
                    add_fields(cmp_out.databases, database_name, table_name, fields),
                    cmp_out.all_db_fields)

LoadFromDict ==
    \E data \in Dicts :
        loader_step("load_from_dict", "loaded", load_from_dict(data), cmp_out.all_db_fields)

LoadFromConfigFile ==
    \E config_file \in ConfigFiles :
        loader_step("load_from_config_file",
                    IF load_from_config_file(cmp_out.databases, config_file).raised = "none"
                    THEN "loaded" ELSE "raised",
                    load_from_config_file(cmp_out.databases, config_file).databases,
                    cmp_out.all_db_fields)

\* FieldMapperApp.load_database_fields (lines 645-695) with no annexure selected
LoadDatabaseFieldsUnselected ==
    loader_step("load_database_fields", "no selection",
                cmp_out.databases, cmp_out.all_db_fields)

\* FieldMapperApp.load_database_fields with one of the loader's databases
\* selected in the read-only list: all_db_fields is emptied (line 655), and
\* set to the fields and tables of the database unless there are none
LoadDatabaseFields ==
    \E k \in 1..Len(cmp_out.databases) :
        IF load_database_fields(cmp_out.databases[k][2]) = <<>>
        THEN loader_step("load_database_fields", "no fields found", cmp_out.databases, <<>>)
        ELSE loader_step("load_database_fields", "loaded", cmp_out.databases,
                         load_database_fields(cmp_out.databases[k][2]))

NextLoader ==
    \/ AddTable
    \/ AddFields
    \/ LoadFromDict
    \/ LoadFromConfigFile
    \/ LoadDatabaseFieldsUnselected
    \/ LoadDatabaseFields

SpecLoader == InitLoader /\ [][NextLoader]_vars

\* the list holds some name more than once
repeats(fields) == \E a, b \in 1..Len(fields) : a # b /\ fields[a] = fields[b]

\* some table of some database of the loader lists a name more than once
loader_repeats(databases) ==
    \E k \in 1..Len(databases) :
        \E t \in 1..Len(databases[k][2].tables) : repeats(databases[k][2].tables[t][2])

\* C18: after a loading operation of FieldLoader no category lists a literal
\* field name more than once
C18_NoRepeatedFieldNames ==
    (cmp_out.call \in {"add_table", "add_fields", "load_from_dict", "load_from_config_file"}
        /\ cmp_out.status = "loaded")
    => ~loader_repeats(cmp_out.databases)


\* C19: a load that fails leaves what was loaded before: databases when
\* load_from_config_file raises, all_db_fields when load_database_fields
\* finds no fields
C19_FailedLoadKeepsState ==
    /\ (cmp_out.call = "load_from_config_file" /\ cmp_out.status = "raised")
           => cmp_out.databases = cmp_out.databases_before
    /\ (cmp_out.call = "load_database_fields" /\ cmp_out.status = "no fields found")
           => cmp_out.all_db_fields = cmp_out.all_db_fields_before


-----------------------------------------------------------------------------
(* SpecValidate: JSONValidator.validate_batch on a list of paths.  A file   *)
(* is what the validator reads of it: whether the path exists and is a      *)
(* regular file, whether it is over 100 MB, whether it decodes as UTF-8,    *)
(* its text (one line), and what json.loads makes of that text.             *)

MaxPaths == 3

\* the outcome of json.loads on a text
loads_returns(data) == [raises |-> "none", data |-> data]
loads_raises(exception) == [raises |-> exception, data |-> JNull]

DiskFile(large, decodable, content, loads) ==
    [exists |-> TRUE, kind |-> "file", large |-> large, decodable |-> decodable,
     content |-> content, loads |-> loads]

n_D == <<"D">>

Paths == {"missing", "folder", "blank", "latin1", "bad", "hugebad",
          "ok", "emptyroot", "blankstring", "mixed", "url"}

\* the files of the model: no such path; a directory; a file of one space;
\* bytes that are no UTF-8; {D:5 ; the same over 100 MB; {"D":5} ; {} ;
\* {"D":" "} ; [{},5] ; {"D":"//"}
Disk(file_path) ==
    CASE file_path = "missing" ->
            [exists |-> FALSE, kind |-> "none", large |-> FALSE, decodable |-> FALSE,
             content |-> <<>>, loads |-> loads_raises("none")]
      [] file_path = "folder" ->
            [exists |-> TRUE, kind |-> "directory", large |-> FALSE, decodable |-> FALSE,
             content |-> <<>>, loads |-> loads_raises("none")]
      [] file_path = "blank" -> DiskFile(FALSE, TRUE, <<" ">>, loads_raises("JSONDecodeError"))
      [] file_path = "latin1" -> DiskFile(FALSE, FALSE, <<>>, loads_raises("none"))
      [] file_path = "bad" ->
            DiskFile(FALSE, TRUE, <<"{", "D", ":", "5">>, loads_raises("JSONDecodeError"))
      [] file_path = "hugebad" ->
            DiskFile(TRUE, TRUE, <<"{", "D", ":", "5">>, loads_raises("JSONDecodeError"))
      [] file_path = "ok" ->
            DiskFile(FALSE, TRUE, <<"{", "\"", "D", "\"", ":", "5", "}">>,
                     loads_returns(JObj(<<n_D>>, <<JNum>>)))
      [] file_path = "emptyroot" ->
            DiskFile(FALSE, TRUE, <<"{", "}">>, loads_returns(JObj(<<>>, <<>>)))
      [] file_path = "blankstring" ->
            DiskFile(FALSE, TRUE, <<"{", "\"", "D", "\"", ":", "\"", " ", "\"", "}">>,
                     loads_returns(JObj(<<n_D>>, <<JStr(<<" ">>)>>)))
      [] file_path = "mixed" ->
            DiskFile(FALSE, TRUE, <<"[", "{", "}", ",", "5", "]">>,
                     loads_returns(JArr(<<JObj(<<>>, <<>>), JNum>>)))
      [] file_path = "url" ->
            DiskFile(FALSE, TRUE, <<"{", "\"", "D", "\"", ":", "\"", "/", "/", "\"", "}">>,
                     loads_returns(JObj(<<n_D>>, <<JStr(<<"/", "/">>)>>)))

\* schema=None, or a schema that requires the field D
NoSchema == [t |-> "none", required |-> <<>>]
RequireD == [t |-> "schema", required |-> <<n_D>>]

\* str.strip() leaves nothing
is_blank(s) == remove_chars(s, {" ", "\n", "\t", "\r"}) = <<>>

\* type(value).__name__ compared between the elements of an array
type_name(v) == IF v.t = "deepstr" THEN "str" ELSE v.t

max_in(S) == CHOOSE x \in S : \A y \in S : y <= x

\* JSONValidator._get_max_depth
RECURSIVE get_max_depth(_, _)
get_max_depth(data, current_depth) ==
    IF is_dict(data) /\ data.vals # <<>>
    THEN max_in({get_max_depth(data.vals[k], current_depth + 1) : k \in 1..Len(data.vals)})
    ELSE IF is_list(data) /\ data.items # <<>>
    THEN max_in({get_max_depth(data.items[k], current_depth + 1) : k \in 1..Len(data.items)})
    ELSE current_depth

\* JSONValidator._validate_structure: the issues (the statistics are left out)
validate_structure(data) ==
    IF is_dict(data)
    THEN (IF Len(data.keys) = 0 THEN <<"Root object is empty">> ELSE <<>>)
         \o (IF get_max_depth(data, 0) > 10 THEN <<"Deep nesting detected">> ELSE <<>>)
    ELSE IF is_list(data)
    THEN IF Len(data.items) = 0 THEN <<"Root array is empty">>
         ELSE (IF \E k \in 2..Len(data.items) :
                      type_name(data.items[k]) # type_name(data.items[1])
               THEN <<"Array contains mixed element types">> ELSE <<>>)
              \o (IF is_dict(data.items[1]) /\ Len(data.items) > 1
                     /\ \E k \in 2..Len(data.items) :
                            is_dict(data.items[k])
                            /\ Range(data.items[k].keys) # Range(data.items[1].keys)
                  THEN <<"Array objects have inconsistent field sets">> ELSE <<>>)
    ELSE <<>>

\* JSONValidator._validate_data_types with check_nulls=False: one issue for
\* each empty string value (the path in the message is left out)
RECURSIVE validate_data_types(_)
validate_data_types(data) ==
    IF is_dict(data)
    THEN concat_all([k \in 1..Len(data.vals) |->
            IF data.vals[k].t = "str" /\ is_blank(data.vals[k].s) THEN <<"Empty string">>
            ELSE IF is_dict(data.vals[k]) \/ is_list(data.vals[k])
            THEN validate_data_types(data.vals[k])
            ELSE <<>>])
    ELSE IF is_list(data)
    THEN concat_all([k \in 1..Len(data.items) |->
            IF is_dict(data.items[k]) \/ is_list(data.items[k])
            THEN validate_data_types(data.items[k])
            ELSE <<>>])
    ELSE <<>>

\* JSONValidator._validate_schema for a schema with 'required' only: the
\* errors (jsonschema and the fallback agree on it)
validate_schema(data, schema) ==
    IF is_dict(data)
    THEN concat_all([k \in 1..Len(schema.required) |->
            IF schema.required[k] \in Range(data.keys) THEN <<>>
            ELSE <<"Missing required field">>])
    ELSE <<>>

\* JSONValidator._check_common_issues on a text of one line
check_common_issues(content) ==
    (IF is_substring(<<"/", "/">>, content) \/ is_substring(<<"/", "*">>, content)
     THEN <<"File may contain comments">> ELSE <<>>)
    \o (IF has_char(content, "'") /\ ~has_char(content, "\"")
        THEN <<"Possible single quotes">> ELSE <<>>)

validation_result_of(valid, file_path, errors, warnings) ==
    [valid |-> valid, file |-> file_path, errors |-> errors, warnings |-> warnings]

\* lines 77-79: the warning about a file of more than 100 MB
size_warnings(file) == IF file.large THEN <<"Large file size">> ELSE <<>>

\* the warnings validate_file collects for a parsed document
document_warnings(file) ==
    size_warnings(file) \o validate_structure(file.loads.data)
    \o validate_data_types(file.loads.data) \o check_common_issues(file.content)

\* JSONValidator.validate_file
validate_file(file_path, schema) ==
    IF ~Disk(file_path).exists
    THEN validation_result_of(FALSE, file_path, <<"File not found">>, <<>>)
    ELSE IF Disk(file_path).kind = "directory"
    THEN validation_result_of(FALSE, file_path, <<"Unexpected error">>, size_warnings(Disk(file_path)))
    ELSE IF ~Disk(file_path).decodable
    THEN validation_result_of(FALSE, file_path, <<"Encoding error">>, size_warnings(Disk(file_path)))
    ELSE IF is_blank(Disk(file_path).content)
    THEN validation_result_of(FALSE, file_path, <<"File is empty">>, size_warnings(Disk(file_path)))
    ELSE IF Disk(file_path).loads.raises = "JSONDecodeError"
    THEN validation_result_of(FALSE, file_path, <<"JSON syntax error">>, size_warnings(Disk(file_path)))
    ELSE IF Disk(file_path).loads.raises # "none"
    THEN validation_result_of(FALSE, file_path, <<"Unexpected error">>, size_warnings(Disk(file_path)))
    ELSE validation_result_of(
             schema.t = "none" \/ validate_schema(Disk(file_path).loads.data, schema) = <<>>,
             file_path,
             IF schema.t = "none" THEN <<>> ELSE validate_schema(Disk(file_path).loads.data, schema),
             document_warnings(Disk(file_path)))

\* a faulty loop body, kept to test the properties of the batch: an invalid
\* file is left out of the report
batch_add_valid_only(results, validation_result) ==
    IF ~validation_result.valid THEN results
    ELSE [results EXCEPT
            !.details = Append(@, validation_result),
            !.valid_files = @ + 1,
            !.files_with_warnings = IF Len(validation_result.warnings) > 0 THEN @ + 1 ELSE @]

\* lines 162-172: the body of the loop of validate_batch
batch_add(results, validation_result) ==
    [results EXCEPT
        !.details = Append(@, validation_result),
        !.valid_files = IF validation_result.valid THEN @ + 1 ELSE @,
        !.invalid_files = IF validation_result.valid THEN @ ELSE @ + 1,
        !.files_with_warnings = IF Len(validation_result.warnings) > 0 THEN @ + 1 ELSE @]

RECURSIVE validate_loop(_, _, _)
validate_loop(results, file_paths, schema) ==
    IF file_paths = <<>> THEN results
    ELSE validate_loop(batch_add(results, validate_file(Head(file_paths), schema)),
                       Tail(file_paths), schema)

\* JSONValidator.validate_batch
validate_batch(file_paths, schema) ==
    validate_loop([total_files |-> Len(file_paths), valid_files |-> 0, invalid_files |-> 0,
                   files_with_warnings |-> 0, details |-> <<>>],
                  file_paths, schema)

InitValidate ==
    /\ cmp_in \in [file_paths : lists_of(Paths, MaxPaths), schema : {NoSchema, RequireD}]
    /\ cmp_out = NoOutcome
    /\ InitBatchIdle
    /\ InitUIIdle

ValidateBatch ==
    /\ cmp_out = NoOutcome
    /\ cmp_out' = [call |-> "validate_batch",
                   results |-> validate_batch(cmp_in.file_paths, cmp_in.schema)]
    /\ UNCHANGED <<cmp_in, batchVars, uiVars>>

NextValidate == ValidateBatch

SpecValidate == InitValidate /\ [][NextValidate]_vars

\* the path names no file, or a file that is blank or no JSON
unusable(file_path) ==
    \/ ~Disk(file_path).exists
    \/ Disk(file_path).kind = "file" /\ Disk(file_path).decodable
       /\ (is_blank(Disk(file_path).content) \/ Disk(file_path).loads.raises = "JSONDecodeError")

\* the details of the report that are not valid
invalid_details(results) == {k \in 1..Len(results.details) : ~results.details[k].valid}

\* C20: the report of validate_batch counts every path once: total_files is
\* the number of paths, the details are one per path in the order given,
\* valid and invalid files add up to the total, the files with warnings are
\* no more than the total, and a missing, empty or malformed file is an
\* invalid entry like any other, followed by the entries of the paths after it
C20_BatchCountsEveryPath ==
    cmp_out.call = "validate_batch" =>
        /\ cmp_out.results.total_files = Len(cmp_in.file_paths)
        /\ Len(cmp_out.results.details) = Len(cmp_in.file_paths)
        /\ \A k \in 1..Len(cmp_in.file_paths) :
               /\ cmp_out.results.details[k].file = cmp_in.file_paths[k]
               /\ cmp_out.results.details[k] = validate_file(cmp_in.file_paths[k], cmp_in.schema)
               /\ unusable(cmp_in.file_paths[k]) => ~cmp_out.results.details[k].valid
        /\ cmp_out.results.valid_files + cmp_out.results.invalid_files
               = cmp_out.results.total_files
        /\ cmp_out.results.invalid_files = Cardinality(invalid_details(cmp_out.results))
        /\ cmp_out.results.files_with_warnings <= cmp_out.results.total_files

\* a missing file and a malformed one come before a readable document with a
\* warning, which is validated and counted all the same
C20_Witness ==
    /\ cmp_out.call = "validate_batch"
    /\ cmp_in.file_paths = <<"missing", "bad", "emptyroot">>
    /\ cmp_in.schema = NoSchema
    /\ cmp_out.results.invalid_files = 2
    /\ cmp_out.results.valid_files = 1
    /\ cmp_out.results.files_with_warnings = 1
    /\ cmp_out.results.details[3].warnings = <<"Root object is empty">>


-----------------------------------------------------------------------------
(* SpecArgs: one call of FieldComparator.compare on arguments of its own:   *)
(* the two lists, the field -> category mapping, the null-category map and  *)
(* the field -> array mapping, with no document to validate                 *)

a_dose == <<"d","o","s","e">>
a_id == <<"i","d">>
p_a_id == <<"a",".","i","d">>
p_b_id == <<"b",".","i","d">>

CatalogArgs == {n_Dose, a_dose, n_Unit, a_id}
JsonArgs == {n_Dose, n_Unit, p_a_id, p_b_id}

CategoryMappings == { <<>>, << <<n_Dose, n_bio>> >>, << <<n_Dose, n_bio>>, <<n_Unit, n_bio>> >> }
NullCategories == { <<>>, << <<n_bio, TRUE>> >>, << <<n_bio, FALSE>> >> }
ArrayMappings ==
    { <<>>, << <<n_Dose, n_bio>> >>, << <<n_Unit, n_bio>> >>,
      << <<n_Dose, n_bio>>, <<n_Unit, n_bio>> >> }
ArgConfigs ==
    { DefaultConfig,
      [case_sensitive |-> TRUE, fuzzy_match |-> FALSE, similarity_threshold |-> 80] }

InitArgs ==
    /\ cmp_in \in [db_fields : lists_of(CatalogArgs, MaxFields),
                   json_fields : lists_of(JsonArgs, MaxFields),
                   field_category_mapping : CategoryMappings,
                   null_categories : NullCategories,
                   array_field_mapping : ArrayMappings,
                   config : ArgConfigs]
    /\ cmp_out = NoOutcome
    /\ InitBatchIdle
    /\ InitUIIdle

CompareArgs ==
    /\ cmp_out = NoOutcome
    /\ cmp_out' = [call |-> "args",
                   outcome |-> compare(cmp_in.db_fields, cmp_in.json_fields,
                                       cmp_in.field_category_mapping, cmp_in.null_categories,
                                       cmp_in.array_field_mapping, JNull, "file", <<>>,
                                       cmp_in.config)]
    /\ UNCHANGED <<cmp_in, batchVars, uiVars>>

NextArgs == CompareArgs

SpecArgs == InitArgs /\ [][NextArgs]_vars

\* the normalized key of a name under the configuration of the call
arg_key(name) == normalize_field(name, cmp_in.config.case_sensitive)

\* the key is bound in the pairs the two passes returned
arg_bound(key) ==
    \E k \in 1..Len(cmp_out.outcome.matched_pairs) : cmp_out.outcome.matched_pairs[k].db = key

\* the key is a key of the normalized field -> category mapping
arg_in_category_mapping(key) ==
    \E k \in 1..Len(cmp_in.field_category_mapping) :
        arg_key(cmp_in.field_category_mapping[k][1]) = key

\* the array the field -> array mapping gives the key is flagged null or empty
arg_array_is_null(key) ==
    null_flags(key,
               normalize_mapping_keys(cmp_in.field_category_mapping, cmp_in.config.case_sensitive),
               normalize_null_categories(cmp_in.null_categories, cmp_in.config.case_sensitive),
               normalize_array_mapping(cmp_in.array_field_mapping, cmp_in.config.case_sensitive),
               cmp_in.config).array_is_null

\* the records of the given status whose catalog field has the key
arg_records(status, key) ==
    {k \in 1..Len(cmp_out.outcome.results) :
        /\ cmp_out.outcome.results[k].status = status
        /\ arg_key(cmp_out.outcome.results[k].db_field) = key}

\* C21: an unmatched catalog field whose key is in the field -> category
\* mapping is reported unmatched_db also when its array is flagged null or
\* empty; an unmatched field that is not in the mapping is dropped then
C21_NullArrayFieldStillMissing ==
    cmp_out.call = "args" =>
        \A d \in 1..Len(cmp_in.db_fields) :
            (~arg_bound(arg_key(cmp_in.db_fields[d])) /\ arg_array_is_null(arg_key(cmp_in.db_fields[d])))
            => (arg_in_category_mapping(arg_key(cmp_in.db_fields[d]))
                <=> arg_records("unmatched_db", arg_key(cmp_in.db_fields[d])) # {})

\* Dose and Unit are owned by the array bio, which is empty; Dose is in the
\* field -> category mapping and is reported, Unit is not and is dropped
C21_Witness ==
    /\ cmp_out.call = "args"
    /\ cmp_in.db_fields = <<n_Dose, n_Unit>>
    /\ cmp_in.json_fields = <<p_a_id>>
    /\ cmp_in.field_category_mapping = << <<n_Dose, n_bio>> >>
    /\ cmp_in.null_categories = << <<n_bio, TRUE>> >>
    /\ cmp_in.array_field_mapping = << <<n_Dose, n_bio>>, <<n_Unit, n_bio>> >>
    /\ arg_records("unmatched_db", arg_key(n_Dose)) # {}
    /\ arg_records("unmatched_db", arg_key(n_Unit)) = {}


\* C22: a catalog field the exact or the fuzzy pass bound to a JSON field is
\* in the output as a matched record, also when its category or its array is
\* flagged null or empty
C22_BoundFieldReportedMatched ==
    cmp_out.call = "args" =>
        \A k \in 1..Len(cmp_out.outcome.matched_pairs) :
            arg_records("matched", cmp_out.outcome.matched_pairs[k].db) # {}


-----------------------------------------------------------------------------
(* SpecFold: the incremental aggregation (lines 1268-1283) of the results   *)
(* of two files compared against the same catalog list                      *)

a_note == <<"n","o","t","e">>

FoldNames == {n_Note, a_note, p_a_id, p_b_id, n_Dose}
FoldCatalogs == { <<n_Dose>>, <<n_Dose, n_Note>> }

\* the counters before the first file (lines 1132-1136)
NoStats == [field_stats |-> <<>>, array_fields_missing_files |-> <<>>]

\* lines 1186-1196 and 1268-1283 for one file with the given field paths
fold_file(w, dfields, jfields, json_file) ==
    aggregate_results(w,
        compare(dfields, jfields, <<>>, <<>>, <<>>, JNull, json_file, <<>>,
                DefaultConfig).results,
        json_file)

InitFold ==
    /\ cmp_in \in [db_fields : FoldCatalogs,
                   one : lists_of(FoldNames, MaxFields),
                   two : lists_of(FoldNames, MaxFields)]
    /\ cmp_out = NoOutcome
    /\ InitBatchIdle
    /\ InitUIIdle

FoldTwoFiles ==
    /\ cmp_out = NoOutcome
    /\ cmp_out' = [call |-> "fold",
                   field_stats |-> fold_file(fold_file(NoStats, cmp_in.db_fields,
                                                       cmp_in.one, "one"),
                                             cmp_in.db_fields, cmp_in.two, "two").field_stats]
    /\ UNCHANGED <<cmp_in, batchVars, uiVars>>

NextFold == FoldTwoFiles

SpecFold == InitFold /\ [][NextFold]_vars

\* C23: the counters of the incremental aggregation are keyed by normalized
\* field name: no two entries of field_stats have the same normalized key,
\* names that differ in spelling or parent path share one entry
C23_CountersKeyedByNormalizedName ==
    cmp_out.call = "fold" =>
        \A k, n \in 1..Len(cmp_out.field_stats) :
            normalize_field(cmp_out.field_stats[k][1], FALSE)
                = normalize_field(cmp_out.field_stats[n][1], FALSE)
            => k = n


-----------------------------------------------------------------------------
(* the provenance of the special-character findings of a batch *)

\* the findings the file-level comparison of a file of the batch produces
\* (lines 1186-1196 with field_comparator.py lines 296-303)
findings_of_file(json_file) ==
    IF json_file \in DOMAIN FileRuns /\ FileRuns[json_file].loaded
    THEN FileRuns[json_file].compared.findings
    ELSE <<>>

\* C24: every finding recorded for a file (lines 1199-1213 copy the same
\* list to fields_with_special_chars and to the log, under the current
\* file's name) comes from the validation of that file itself and is recorded
\* once: nothing produced by the comparison of a record is carried over
C24_FindingsOfTheFileItself ==
    \A k \in 1..Len(fields_with_special_chars) :
        /\ \E n \in 1..Len(findings_of_file(fields_with_special_chars[k].file)) :
              findings_of_file(fields_with_special_chars[k].file)[n]
                  = fields_with_special_chars[k]
        /\ \A n \in 1..Len(fields_with_special_chars) :
              (fields_with_special_chars[n] = fields_with_special_chars[k]
               /\ ~\E a, b \in 1..Len(json_files_list.head) :
                      a # b /\ json_files_list.head[a] = json_files_list.head[b])
              => n = k


-----------------------------------------------------------------------------
(* SpecExclude: one call of _is_excluded_field_with_database for a field    *)
(* name and one keyword set for the database                                *)

ExcludeChars == {"x", "K", "_", "z"}

ExcludeNames == lists_of(ExcludeChars, MaxNameLen)

InitExclude ==
    /\ cmp_in \in [field_name : ExcludeNames, keyword : ExcludeNames]
    /\ cmp_out = NoOutcome
    /\ InitBatchIdle
    /\ InitUIIdle

\* _is_excluded_field_with_database(field_name, database_name) after
\* set_database_excluded_keywords(database_name, [keyword]) (lines 50-58)
IsExcluded ==
    /\ cmp_out = NoOutcome
    /\ cmp_out' = [call |-> "exclude",
                   excluded |-> is_excluded_field_with_database(cmp_in.field_name,
                                                                <<cmp_in.keyword>>)]
    /\ UNCHANGED <<cmp_in, batchVars, uiVars>>

NextExclude == IsExcluded

SpecExclude == InitExclude /\ [][NextExclude]_vars

\* C25: a field is exempt whenever the normalized keyword of the database is
\* contained in the normalized field name or the normalized field name is
\* contained in the normalized keyword
C25_KeywordEitherDirection ==
    cmp_out.call = "exclude" =>
        ((\/ is_substring(exclusion_key(cmp_in.keyword), exclusion_key(cmp_in.field_name))
          \/ is_substring(exclusion_key(cmp_in.field_name), exclusion_key(cmp_in.keyword)))
         => cmp_out.excluded)


-----------------------------------------------------------------------------
(* SpecKeys: the key JSONParser._normalize_field_name gives a name next to  *)
(* the key of the comparator's case-insensitive _normalize_fields           *)

InitKeys ==
    /\ cmp_in \in [name : Names]
    /\ cmp_out = NoOutcome
    /\ InitBatchIdle
    /\ InitUIIdle

\* json_parser.py lines 495-501 and field_comparator.py lines 562-599 on
\* the same name
NormalizeBoth ==
    /\ cmp_out = NoOutcome
    /\ cmp_out' = [call |-> "keys",
                   parser |-> normalize_field_name(cmp_in.name),
                   comparator |-> normalize_fields(<<cmp_in.name>>, FALSE)[1]]
    /\ UNCHANGED <<cmp_in, batchVars, uiVars>>

NextKeys == NormalizeBoth

SpecKeys == InitKeys /\ [][NextKeys]_vars

\* C26: JSONParser._normalize_field_name returns for every field name, names
\* with dots included, the key of the comparator's case-insensitive normalizer
C26_ParserKeyIsComparatorKey ==
    cmp_out.call = "keys" => cmp_out.parser = cmp_out.comparator


-----------------------------------------------------------------------------
(* the values a flattened field path reaches in a document *)

\* a string with a character outside the allow-list is found by following
\* the keys through every element of the arrays on the way
RECURSIVE special_value_at(_, _)
special_value_at(current, keys) ==
    IF keys = <<>>
    THEN current.t = "str" /\ current # DeepStr /\ current.s # <<>>
         /\ get_special_characters_in_value(current.s) # <<>>
    ELSE IF is_dict(current) THEN special_value_at(obj_get(current, Head(keys)), Tail(keys))
    ELSE IF is_list(current)
    THEN \E k \in 1..Len(current.items) : special_value_at(current.items[k], keys)
    ELSE FALSE

\* C27: the file-level comparison records a finding for every flattened field
\* path, not excluded, under which some element of an array of objects or some
\* record of a root array holds a string with a special character
C27_EveryReachableValueValidated ==
    (cmp_out.call = "file" /\ ~cmp_out.outcome.raised) =>
        \A field_path \in extract_all_fields(cmp_in.document, <<>>) :
            (/\ ~is_excluded_field_with_database(field_path, <<>>)
             /\ special_value_at(cmp_in.document, split_dots(field_path)))
            => \E k \in 1..Len(cmp_out.outcome.findings) :
                   cmp_out.outcome.findings[k].field = field_path


-----------------------------------------------------------------------------
(* the counting of the files of the incremental path *)

-----------------------------------------------------------------------------
(* the records of one call of compare, per catalog key and per JSON path *)

\* C29: one call of compare emits at most one record, matched or
\* unmatched_db, per distinct normalized catalog key, duplicates in the
\* catalog list included
C29_OneRecordPerCatalogKey ==
    cmp_out.call = "args" =>
        \A d \in 1..Len(cmp_in.db_fields) :
            Cardinality(arg_records("matched", arg_key(cmp_in.db_fields[d]))
                        \cup arg_records("unmatched_db", arg_key(cmp_in.db_fields[d]))) <= 1

\* the records that report the given JSON path as unmatched_json
arg_unmatched_json(field_path) ==
    {k \in 1..Len(cmp_out.outcome.results) :
        /\ cmp_out.outcome.results[k].status = "unmatched_json"
        /\ cmp_out.outcome.results[k].json_field = field_path}

\* the JSON path's key is bound by no matched pair
arg_unclaimed(field_path) ==
    \A k \in 1..Len(cmp_out.outcome.matched_pairs) :
        cmp_out.outcome.matched_pairs[k].json # arg_key(field_path)

\* C30: for a list of distinct JSON field paths, every path no match claims is
\* reported exactly once as unmatched_json under its own path, and every
\* unmatched_json record names a path of the list, paths with the same leaf
\* name included
C30_UnmatchedJsonUnderOwnPath ==
    (/\ cmp_out.call = "args"
     /\ \A a, b \in 1..Len(cmp_in.json_fields) :
            cmp_in.json_fields[a] = cmp_in.json_fields[b] => a = b) =>
        /\ \A j \in 1..Len(cmp_in.json_fields) :
              arg_unclaimed(cmp_in.json_fields[j])
              => Cardinality(arg_unmatched_json(cmp_in.json_fields[j])) = 1
        /\ \A k \in 1..Len(cmp_out.outcome.results) :
              cmp_out.outcome.results[k].status = "unmatched_json"
              => \E j \in 1..Len(cmp_in.json_fields) :
                     cmp_out.outcome.results[k].json_field = cmp_in.json_fields[j]

=============================================================================
